---- MODULE Spec2Model ----
(***************************************************************************)
(* SuPA: the NSI Connection Service state machines of one connection       *)
(* (src/supa/connection/fsm.py) and the callers that drive them.           *)
(*                                                                         *)
(* A state machine class declares its states and, per event, the           *)
(* transitions the event may take (Source.to(Dest) | ...).  Calling an     *)
(* event on a machine looks for the transition whose source is the         *)
(* machine's current state: when there is one the state field becomes its  *)
(* destination, when there is none the call raises TransitionNotAllowed    *)
(* and nothing is written.                                                 *)
(***************************************************************************)
EXTENDS Integers, Sequences, FiniteSets, TLC

VARIABLES
    reservation_state,   \* state field of the ReservationStateMachine
    provisioning_state,  \* state field of the ProvisioningStateMachine
    lifecycle_state,     \* state field of the LifecycleStateMachine
    data_plane_state,    \* data plane state of the connection
    hold_timer,          \* TRUE while a reserve hold timer job is scheduled
    notifications,       \* the connection's notification log, oldest first
    last,                \* the last event call: machine, event, source state, result
    calls,               \* the event calls made so far, while they follow a scenario
    reached,             \* the reservation milestones the connection has passed
    requests,            \* the ReserveCommit requests being processed
    lock,                \* holder of the connection's lock
    commit_jobs,         \* ReserveCommitJobs scheduled and still pending
    store,               \* the reservation, notification and result tables
    response,            \* the response of the query job that ran last
    scheduler,           \* the job scheduler: whether it runs, and its query jobs
    backend,             \* the process-wide NRM backend instance and its attributes
    sessions,            \* the SSH sessions opened to the switch, oldest first
    switch,              \* the switch's VLAN configuration
    nrm_jobs,            \* the jobs that call the backend, and their call in progress
    stp                  \* an STP entry of the topology file and the STP loaded from it

\* The connection's machines and what the event calls on them write.
connection_vars == <<reservation_state, provisioning_state, lifecycle_state,
                     data_plane_state, hold_timer, notifications, last, calls>>

\* What the message processors of one connection share.
processor_vars == <<requests, lock, commit_jobs>>

\* The tables the query jobs read and the response they build.
query_vars == <<store, response>>

\* The job scheduler, the NRM backend and what it talks to.
nrm_vars == <<scheduler, backend, sessions, switch, nrm_jobs, stp>>

vars == <<connection_vars, reached, processor_vars, query_vars, nrm_vars>>

machines == <<reservation_state, provisioning_state, lifecycle_state, data_plane_state>>

\* Longest notification log the model lets a connection grow.
MaxNotifications == 2

\* Nobody holds the connection's lock.
Free == 0

\* No message processor is at work on the connection.
NoRequests ==
    /\ requests = <<>>
    /\ lock = Free
    /\ commit_jobs = [scheduled |-> 0, pending |-> 0]

\* No scheduler, backend or switch is at work.
NoNrm ==
    /\ scheduler = [up |-> TRUE, run |-> 0, jobs |-> {}, sent |-> {}]
    /\ backend = [name |-> "none"]
    /\ sessions = <<>>
    /\ switch = [vlans |-> {}, trunk |-> {}, allowed |-> {}]
    /\ nrm_jobs = <<>>
    /\ stp = [config |-> "none"]

\* No query has run.
NoResponse == [operation |-> "none"]

\* The tables are empty and no query job runs.
NoQueries ==
    /\ store = [reservations |-> {}, notifications |-> {}, results |-> {}]
    /\ response = NoResponse

----------------------------------------------------------------------------
(* State.to and the call of an event.                                      *)

\* Source.to(Dest): one transition.  `|` on transitions is set union.
to(source, dest) == {<<source, dest>>}

\* The transitions of `event` that leave `state`.
Leaving(event, state) == {t \in event : t[1] = state}

\* Variant: the destination is written before the source is verified.
RunUnverified(event, state) ==
    IF Leaving(event, state) # {}
    THEN [result |-> "Accepted", state |-> (CHOOSE t \in Leaving(event, state) : TRUE)[2]]
    ELSE [result |-> "Rejected", state |-> (CHOOSE t \in event : TRUE)[2]]

\* event(): the outcome of calling `event` on a machine whose state field
\* holds `state`.  TransitionNotAllowed is the result "Rejected".
Run(event, state) ==
    IF Leaving(event, state) # {}
    THEN [result |-> "Accepted", state |-> (CHOOSE t \in Leaving(event, state) : TRUE)[2]]
    ELSE [result |-> "Rejected", state |-> state]

----------------------------------------------------------------------------
(* ReservationStateMachine                                                 *)

RSMStates == {"Start", "Checking", "Held", "Committing", "Failed", "Timeout", "Aborting"}
RSMInitial == "Start"

reserve_request == to("Start", "Checking")
reserve_confirmed == to("Checking", "Held")
\* Variant: a failed reservation falls back to Start.
reserve_failed_to_start == to("Checking", "Start")
reserve_failed == to("Checking", "Failed")
\* Variant: a timed-out hold can be aborted too.
reserve_abort_request_any == to("Failed", "Aborting") \cup to("Held", "Aborting")
                                 \cup to("Timeout", "Aborting")
reserve_abort_request == to("Failed", "Aborting") \cup to("Held", "Aborting")
reserve_abort_confirmed == to("Aborting", "Start")
\* Variant: the timeout also takes a reservation that is being committed.
reserve_timeout_notification_late == to("Held", "Timeout") \cup to("Committing", "Timeout")
reserve_timeout_notification == to("Held", "Timeout")
\* Variant: a commit request is also taken while a commit is in progress.
reserve_commit_request_again ==
    to("Held", "Committing") \cup to("Timeout", "Committing") \cup to("Committing", "Committing")
\* Variant: only a hold that has not timed out can be committed.
reserve_commit_request_held_only == to("Held", "Committing")
reserve_commit_request == to("Held", "Committing") \cup to("Timeout", "Committing")
\* Variant: a confirmed commit leaves the reservation held.
reserve_commit_confirmed_to_held == to("Committing", "Held")
reserve_commit_confirmed == to("Committing", "Start")
reserve_commit_failed == to("Committing", "Start")

(* ProvisioningStateMachine                                                *)

PSMStates == {"Released", "Provisioning", "Provisioned", "Releasing"}
PSMInitial == "Released"

\* Variant: a provisioned connection can be provisioned again.
provision_request_again == to("Released", "Provisioning") \cup to("Provisioned", "Provisioning")
provision_request == to("Released", "Provisioning")
provision_confirmed == to("Provisioning", "Provisioned")
\* Variant: a release request releases at once.
release_request_skip == to("Provisioned", "Released")
release_request == to("Provisioned", "Releasing")
release_confirmed == to("Releasing", "Released")

(* LifecycleStateMachine                                                   *)

LSMStates == {"Created", "Failed", "Terminating", "PassedEndTime", "Terminated"}
LSMInitial == "Created"

\* Variant: a forced end is also taken after the end time has passed.
forced_end_notification_late == to("Created", "Failed") \cup to("PassedEndTime", "Failed")
forced_end_notification == to("Created", "Failed")
\* Variant: terminate is accepted from Created only.
terminate_request_created_only == to("Created", "Terminating")
\* Variant: a terminated connection can be terminated again.
terminate_request_again == to("Created", "Terminating") \cup to("PassedEndTime", "Terminating")
                               \cup to("Failed", "Terminating")
                               \cup to("Terminated", "Terminating")
terminate_request == to("Created", "Terminating") \cup to("PassedEndTime", "Terminating")
                         \cup to("Failed", "Terminating")
\* Variant: the end time also passes for a failed connection.
endtime_event_any == to("Created", "PassedEndTime") \cup to("Failed", "PassedEndTime")
endtime_event == to("Created", "PassedEndTime")
terminate_confirmed == to("Terminating", "Terminated")

(* The transitions each machine class declares, over all of its events.    *)
RSMTransitions ==
    reserve_request \cup reserve_confirmed \cup reserve_failed
        \cup reserve_abort_request \cup reserve_abort_confirmed
        \cup reserve_timeout_notification \cup reserve_commit_request
        \cup reserve_commit_confirmed \cup reserve_commit_failed
PSMTransitions ==
    provision_request \cup provision_confirmed \cup release_request \cup release_confirmed
LSMTransitions ==
    forced_end_notification \cup terminate_request \cup endtime_event \cup terminate_confirmed

\* The states a machine can be brought to from the states in `from` by
\* events it accepts.
RECURSIVE Reachable(_, _)
Reachable(transitions, from) ==
    LET next == from \cup {t[2] : t \in {u \in transitions : u[1] \in from}}
    IN IF next = from THEN from ELSE Reachable(transitions, next)

(* Data plane state of a connection, driven by the NRM backend's activate   *)
(* and deactivate.                                                         *)

DPSMStates == {"Deactivated", "Activating", "Activated", "Deactivating",
               "ActivateFailed", "DeactivateFailed"}
DPSMInitial == "Deactivated"

activate_request == to("Deactivated", "Activating")
activate_confirmed == to("Activating", "Activated")
activate_failed == to("Activating", "ActivateFailed")
deactivate_request == to("Activated", "Deactivating")
deactivate_confirmed == to("Deactivating", "Deactivated")
deactivate_failed == to("Deactivating", "DeactivateFailed")

----------------------------------------------------------------------------
(* Scenarios: sequences of event calls on a fresh connection.  `calls`     *)
(* holds the calls made so far as long as they are the beginning of one    *)
(* of them, and Diverged from the first call that leaves them all.         *)

HappyPath ==
    <<"reserve_request", "reserve_confirmed", "reserve_commit_request",
      "reserve_commit_confirmed", "provision_request", "provision_confirmed",
      "release_request", "release_confirmed", "terminate_request", "terminate_confirmed">>

TimeoutCommit ==
    <<"reserve_request", "reserve_confirmed", "reserve_timeout_notification",
      "reserve_commit_request", "reserve_commit_confirmed">>

TimeoutAbort ==
    <<"reserve_request", "reserve_confirmed", "reserve_timeout_notification",
      "reserve_abort_request">>

Scenarios == {HappyPath, TimeoutCommit, TimeoutAbort}

Diverged == <<"diverged">>

IsPrefix(s, t) == Len(s) <= Len(t) /\ SubSeq(t, 1, Len(s)) = s

Follow(name) ==
    IF \E s \in Scenarios : IsPrefix(Append(calls, name), s)
    THEN Append(calls, name)
    ELSE Diverged

----------------------------------------------------------------------------
(* The state after construction: every machine in its initial state, no    *)
(* timer scheduled, an empty notification log.                             *)

Init ==
    /\ reservation_state = RSMInitial
    /\ provisioning_state = PSMInitial
    /\ lifecycle_state = LSMInitial
    /\ data_plane_state = DPSMInitial
    /\ hold_timer = FALSE
    /\ notifications = <<>>
    /\ last = [machine |-> "none", event |-> "none", source |-> "none", result |-> "none"]
    /\ calls = <<>>
    /\ reached = {}
    /\ NoRequests
    /\ NoQueries
    /\ NoNrm

Called(machine, name, source, r) ==
    /\ last' = [machine |-> machine, event |-> name, source |-> source, result |-> r.result]
    /\ calls' = Follow(name)

\* rsm.<name>() on the connection's ReservationStateMachine.
RSMCall(name, event) ==
    LET r == Run(event, reservation_state) IN
    /\ reservation_state' = r.state
    /\ Called("RSM", name, reservation_state, r)
    /\ UNCHANGED <<provisioning_state, lifecycle_state, data_plane_state>>

\* psm.<name>() on the connection's ProvisioningStateMachine.
PSMCall(name, event) ==
    LET r == Run(event, provisioning_state) IN
    /\ provisioning_state' = r.state
    /\ Called("PSM", name, provisioning_state, r)
    /\ UNCHANGED <<reservation_state, lifecycle_state, data_plane_state>>

\* lsm.<name>() on the connection's LifecycleStateMachine.
LSMCall(name, event) ==
    LET r == Run(event, lifecycle_state) IN
    /\ lifecycle_state' = r.state
    /\ Called("LSM", name, lifecycle_state, r)
    /\ UNCHANGED <<reservation_state, provisioning_state, data_plane_state>>

\* A data plane event of the connection.
DPSMCall(name, event) ==
    LET r == Run(event, data_plane_state) IN
    /\ data_plane_state' = r.state
    /\ Called("DPSM", name, data_plane_state, r)
    /\ UNCHANGED <<reservation_state, provisioning_state, lifecycle_state>>

----------------------------------------------------------------------------
(* Reservation events.  An accepted reserve request schedules the hold     *)
(* timer; an accepted commit or abort request cancels it, unless the timer *)
(* job was already picked up (then it still runs).                         *)

HoldTimerScheduled == hold_timer' = (hold_timer \/ last'.result = "Accepted")

HoldTimerCancelled ==
    hold_timer' \in (IF last'.result = "Accepted" THEN {FALSE, hold_timer} ELSE {hold_timer})

rsm_reserve_request ==
    /\ RSMCall("reserve_request", reserve_request)
    /\ HoldTimerScheduled
    /\ UNCHANGED notifications

rsm_reserve_confirmed ==
    /\ RSMCall("reserve_confirmed", reserve_confirmed)
    /\ UNCHANGED <<hold_timer, notifications>>

rsm_reserve_failed ==
    /\ RSMCall("reserve_failed", reserve_failed)
    /\ UNCHANGED <<hold_timer, notifications>>

rsm_reserve_abort_request ==
    /\ RSMCall("reserve_abort_request", reserve_abort_request)
    /\ HoldTimerCancelled
    /\ UNCHANGED notifications

rsm_reserve_abort_confirmed ==
    /\ RSMCall("reserve_abort_confirmed", reserve_abort_confirmed)
    /\ UNCHANGED <<hold_timer, notifications>>

rsm_reserve_commit_request ==
    /\ RSMCall("reserve_commit_request", reserve_commit_request)
    /\ HoldTimerCancelled
    /\ UNCHANGED notifications

rsm_reserve_commit_confirmed ==
    /\ RSMCall("reserve_commit_confirmed", reserve_commit_confirmed)
    /\ UNCHANGED <<hold_timer, notifications>>

rsm_reserve_commit_failed ==
    /\ RSMCall("reserve_commit_failed", reserve_commit_failed)
    /\ UNCHANGED <<hold_timer, notifications>>

\* The hold timer fires: the job calls rsm.reserve_timeout_notification()
\* and, when that is accepted, appends a ReserveTimeout notification.
ReserveTimeoutJob ==
    /\ hold_timer
    /\ Len(notifications) < MaxNotifications
    /\ hold_timer' = FALSE
    /\ LET r == Run(reserve_timeout_notification, reservation_state) IN
       /\ reservation_state' = r.state
       /\ Called("RSM", "reserve_timeout_notification", reservation_state, r)
       /\ notifications' = IF r.result = "Accepted"
                           THEN Append(notifications, "ReserveTimeout")
                           ELSE notifications
    /\ UNCHANGED <<provisioning_state, lifecycle_state, data_plane_state>>

(* Provisioning events.                                                    *)

psm_provision_request ==
    /\ PSMCall("provision_request", provision_request)
    /\ UNCHANGED <<hold_timer, notifications>>
psm_provision_confirmed ==
    /\ PSMCall("provision_confirmed", provision_confirmed)
    /\ UNCHANGED <<hold_timer, notifications>>
psm_release_request ==
    /\ PSMCall("release_request", release_request)
    /\ UNCHANGED <<hold_timer, notifications>>
psm_release_confirmed ==
    /\ PSMCall("release_confirmed", release_confirmed)
    /\ UNCHANGED <<hold_timer, notifications>>

(* Lifecycle events.                                                       *)

lsm_forced_end_notification ==
    /\ LSMCall("forced_end_notification", forced_end_notification)
    /\ UNCHANGED <<hold_timer, notifications>>
lsm_terminate_request ==
    /\ LSMCall("terminate_request", terminate_request)
    /\ UNCHANGED <<hold_timer, notifications>>
lsm_endtime_event ==
    /\ LSMCall("endtime_event", endtime_event)
    /\ UNCHANGED <<hold_timer, notifications>>
lsm_terminate_confirmed ==
    /\ LSMCall("terminate_confirmed", terminate_confirmed)
    /\ UNCHANGED <<hold_timer, notifications>>

(* Data plane events.                                                      *)

dpsm_activate_request ==
    /\ DPSMCall("activate_request", activate_request)
    /\ UNCHANGED <<hold_timer, notifications>>
dpsm_activate_confirmed ==
    /\ DPSMCall("activate_confirmed", activate_confirmed)
    /\ UNCHANGED <<hold_timer, notifications>>
dpsm_activate_failed ==
    /\ DPSMCall("activate_failed", activate_failed)
    /\ UNCHANGED <<hold_timer, notifications>>
dpsm_deactivate_request ==
    /\ DPSMCall("deactivate_request", deactivate_request)
    /\ UNCHANGED <<hold_timer, notifications>>
dpsm_deactivate_confirmed ==
    /\ DPSMCall("deactivate_confirmed", deactivate_confirmed)
    /\ UNCHANGED <<hold_timer, notifications>>
dpsm_deactivate_failed ==
    /\ DPSMCall("deactivate_failed", deactivate_failed)
    /\ UNCHANGED <<hold_timer, notifications>>

Next ==
    \/ rsm_reserve_request /\ UNCHANGED <<reached, processor_vars, query_vars, nrm_vars>>
    \/ rsm_reserve_confirmed /\ UNCHANGED <<reached, processor_vars, query_vars, nrm_vars>>
    \/ rsm_reserve_failed /\ UNCHANGED <<reached, processor_vars, query_vars, nrm_vars>>
    \/ rsm_reserve_abort_request /\ UNCHANGED <<reached, processor_vars, query_vars, nrm_vars>>
    \/ rsm_reserve_abort_confirmed /\ UNCHANGED <<reached, processor_vars, query_vars, nrm_vars>>
    \/ rsm_reserve_commit_request /\ UNCHANGED <<reached, processor_vars, query_vars, nrm_vars>>
    \/ rsm_reserve_commit_confirmed /\ UNCHANGED <<reached, processor_vars, query_vars, nrm_vars>>
    \/ rsm_reserve_commit_failed /\ UNCHANGED <<reached, processor_vars, query_vars, nrm_vars>>
    \/ ReserveTimeoutJob /\ UNCHANGED <<reached, processor_vars, query_vars, nrm_vars>>
    \/ psm_provision_request /\ UNCHANGED <<reached, processor_vars, query_vars, nrm_vars>>
    \/ psm_provision_confirmed /\ UNCHANGED <<reached, processor_vars, query_vars, nrm_vars>>
    \/ psm_release_request /\ UNCHANGED <<reached, processor_vars, query_vars, nrm_vars>>
    \/ psm_release_confirmed /\ UNCHANGED <<reached, processor_vars, query_vars, nrm_vars>>
    \/ lsm_forced_end_notification /\ UNCHANGED <<reached, processor_vars, query_vars, nrm_vars>>
    \/ lsm_terminate_request /\ UNCHANGED <<reached, processor_vars, query_vars, nrm_vars>>
    \/ lsm_endtime_event /\ UNCHANGED <<reached, processor_vars, query_vars, nrm_vars>>
    \/ lsm_terminate_confirmed /\ UNCHANGED <<reached, processor_vars, query_vars, nrm_vars>>
    \/ dpsm_activate_request /\ UNCHANGED <<reached, processor_vars, query_vars, nrm_vars>>
    \/ dpsm_activate_confirmed /\ UNCHANGED <<reached, processor_vars, query_vars, nrm_vars>>
    \/ dpsm_activate_failed /\ UNCHANGED <<reached, processor_vars, query_vars, nrm_vars>>
    \/ dpsm_deactivate_request /\ UNCHANGED <<reached, processor_vars, query_vars, nrm_vars>>
    \/ dpsm_deactivate_confirmed /\ UNCHANGED <<reached, processor_vars, query_vars, nrm_vars>>
    \/ dpsm_deactivate_failed /\ UNCHANGED <<reached, processor_vars, query_vars, nrm_vars>>

Spec == Init /\ [][Next]_vars

----------------------------------------------------------------------------
(* The provider: the message processors and jobs that drive a connection.  *)
(* The RSM and LSM are instantiated with the connection; the PSM is        *)
(* instantiated when the first version of the reservation is committed,    *)
(* until then provisioning_state is not set.                               *)

\* provisioning_state of a connection whose PSM is not instantiated yet.
NoPSM == "None"

ProviderInit ==
    /\ reservation_state = RSMInitial
    /\ provisioning_state = NoPSM
    /\ lifecycle_state = LSMInitial
    /\ data_plane_state = DPSMInitial
    /\ hold_timer = FALSE
    /\ notifications = <<>>
    /\ last = [machine |-> "none", event |-> "none", source |-> "none", result |-> "none"]
    /\ calls = <<>>
    /\ reached = {}
    /\ NoRequests
    /\ NoQueries
    /\ NoNrm

\* The reservation events that mark the progress of a reservation.
Milestones == {"reserve_confirmed", "reserve_commit_request", "reserve_commit_confirmed"}

\* `reached` collects the milestones whose event has been accepted.
Track ==
    reached' = reached \cup
        (IF last'.result = "Accepted" /\ last'.event \in Milestones
         THEN {last'.event} ELSE {})

\* ReserveCommitJob, the backend's reserve_commit having succeeded:
\* rsm.reserve_commit_confirmed(), then the PSM is instantiated if the
\* connection has none.
ReserveCommitJob ==
    LET r == Run(reserve_commit_confirmed, reservation_state) IN
    /\ reservation_state' = r.state
    /\ Called("RSM", "reserve_commit_confirmed", reservation_state, r)
    /\ provisioning_state' = IF r.result = "Accepted" /\ provisioning_state = NoPSM
                             THEN PSMInitial
                             ELSE provisioning_state
    /\ UNCHANGED <<lifecycle_state, data_plane_state, hold_timer, notifications>>

\* The Provision processor: requires LSM = Created and the end time not to
\* have passed, then psm.provision_request().
Provision ==
    \E after_end_time \in BOOLEAN :
        LET r == IF lifecycle_state = "Created" /\ ~after_end_time
                 THEN Run(provision_request, provisioning_state)
                 ELSE [result |-> "Rejected", state |-> provisioning_state]
        IN
        /\ provisioning_state' = r.state
        /\ last' = [machine |-> "PSM", event |-> "Provision",
                    source |-> provisioning_state, result |-> r.result,
                    after_end_time |-> after_end_time]
        /\ calls' = Follow("Provision")
        /\ UNCHANGED <<reservation_state, lifecycle_state, data_plane_state,
                       hold_timer, notifications>>

ProviderNext ==
    \/ rsm_reserve_request /\ Track /\ UNCHANGED <<processor_vars, query_vars, nrm_vars>>
    \/ rsm_reserve_confirmed /\ Track /\ UNCHANGED <<processor_vars, query_vars, nrm_vars>>
    \/ rsm_reserve_failed /\ Track /\ UNCHANGED <<processor_vars, query_vars, nrm_vars>>
    \/ rsm_reserve_abort_request /\ Track /\ UNCHANGED <<processor_vars, query_vars, nrm_vars>>
    \/ rsm_reserve_abort_confirmed /\ Track /\ UNCHANGED <<processor_vars, query_vars, nrm_vars>>
    \/ rsm_reserve_commit_request /\ Track /\ UNCHANGED <<processor_vars, query_vars, nrm_vars>>
    \/ ReserveCommitJob /\ Track /\ UNCHANGED <<processor_vars, query_vars, nrm_vars>>
    \/ rsm_reserve_commit_failed /\ Track /\ UNCHANGED <<processor_vars, query_vars, nrm_vars>>
    \/ ReserveTimeoutJob /\ Track /\ UNCHANGED <<processor_vars, query_vars, nrm_vars>>
    \/ Provision /\ Track /\ UNCHANGED <<processor_vars, query_vars, nrm_vars>>
    \/ psm_provision_confirmed /\ Track /\ UNCHANGED <<processor_vars, query_vars, nrm_vars>>
    \/ psm_release_request /\ Track /\ UNCHANGED <<processor_vars, query_vars, nrm_vars>>
    \/ psm_release_confirmed /\ Track /\ UNCHANGED <<processor_vars, query_vars, nrm_vars>>
    \/ lsm_forced_end_notification /\ Track /\ UNCHANGED <<processor_vars, query_vars, nrm_vars>>
    \/ lsm_terminate_request /\ Track /\ UNCHANGED <<processor_vars, query_vars, nrm_vars>>
    \/ lsm_endtime_event /\ Track /\ UNCHANGED <<processor_vars, query_vars, nrm_vars>>
    \/ lsm_terminate_confirmed /\ Track /\ UNCHANGED <<processor_vars, query_vars, nrm_vars>>

Provider == ProviderInit /\ [][ProviderNext]_vars

----------------------------------------------------------------------------
(* Concurrent ReserveCommit requests for one connection whose reservation  *)
(* is held or has timed out.  A processor takes the connection's lock,     *)
(* loads the reservation state, validates the event against it, writes     *)
(* the new state with a compare-and-swap on the state it loaded, enqueues  *)
(* the ReserveCommitJob and releases the lock.  The hold timer and the     *)
(* ReserveCommitJob are jobs on the same connection: they run while no     *)
(* processor holds the lock.                                               *)

\* Number of ReserveCommit requests in flight for the connection.
MaxRequests == 3

Requests == 1..MaxRequests

ConcurrentInit ==
    /\ reservation_state \in {"Held", "Timeout"}
    /\ provisioning_state = NoPSM
    /\ lifecycle_state = LSMInitial
    /\ data_plane_state = DPSMInitial
    /\ hold_timer = (reservation_state = "Held")
    /\ notifications = IF reservation_state = "Timeout" THEN <<"ReserveTimeout">> ELSE <<>>
    /\ last = [machine |-> "none", event |-> "none", source |-> "none", result |-> "none"]
    /\ calls = <<>>
    /\ reached = {"reserve_confirmed"}
    /\ requests = [i \in Requests |-> [pc |-> "received", seen |-> "none", result |-> "none"]]
    /\ lock = Free
    /\ commit_jobs = [scheduled |-> 0, pending |-> 0]
    /\ NoQueries
    /\ NoNrm

\* update_state(connection, RSM, new_state, expected_prev_state): compare and
\* swap on the state the caller loaded.
update_state(current, new_state, expected_prev_state) ==
    IF current = expected_prev_state
    THEN [result |-> "ok", state |-> new_state]
    ELSE [result |-> "conflict", state |-> current]

\* The processor of request i takes the connection's lock.
ReserveCommitAcquire(i) ==
    /\ requests[i].pc = "received"
    /\ lock = Free
    /\ lock' = i
    /\ requests' = [requests EXCEPT ![i].pc = "locked"]
    /\ UNCHANGED <<connection_vars, reached, commit_jobs, query_vars, nrm_vars>>

\* The processor of request i loads the connection.
ReserveCommitLoad(i) ==
    /\ requests[i].pc = "locked"
    /\ requests' = [requests EXCEPT ![i].pc = "loaded", ![i].seen = reservation_state]
    /\ UNCHANGED <<connection_vars, reached, lock, commit_jobs, query_vars, nrm_vars>>

\* The processor of request i validates reserve_commit_request against the
\* state it loaded, writes the new state and enqueues the ReserveCommitJob;
\* a rejected event or a lost compare-and-swap is answered InvalidTransition.
ReserveCommitUpdate(i) ==
    LET r == Run(reserve_commit_request, requests[i].seen)
        u == update_state(reservation_state, r.state, requests[i].seen)
        accepted == r.result = "Accepted" /\ u.result = "ok"
    IN  /\ requests[i].pc = "loaded"
        /\ reservation_state' = IF accepted THEN u.state ELSE reservation_state
        /\ Called("RSM", "reserve_commit_request", requests[i].seen,
                  [result |-> IF accepted THEN "Accepted" ELSE "Rejected", state |-> u.state])
        /\ HoldTimerCancelled
        /\ commit_jobs' = IF accepted
                          THEN [scheduled |-> commit_jobs.scheduled + 1,
                                pending |-> commit_jobs.pending + 1]
                          ELSE commit_jobs
        /\ requests' = [requests EXCEPT
                            ![i].pc = "answered",
                            ![i].result = IF accepted THEN "Accepted" ELSE "InvalidTransition"]
        /\ UNCHANGED <<provisioning_state, lifecycle_state, data_plane_state,
                       notifications, reached, lock, query_vars, nrm_vars>>

\* The processor of request i releases the lock and returns.
ReserveCommitRelease(i) ==
    /\ requests[i].pc = "answered"
    /\ lock' = Free
    /\ requests' = [requests EXCEPT ![i].pc = "done"]
    /\ UNCHANGED <<connection_vars, reached, commit_jobs, query_vars, nrm_vars>>

\* A pending ReserveCommitJob runs and the backend confirms the commit.
ReserveCommitJobConfirmed ==
    /\ lock = Free
    /\ commit_jobs.pending > 0
    /\ ReserveCommitJob
    /\ commit_jobs' = [commit_jobs EXCEPT !.pending = @ - 1]
    /\ UNCHANGED <<reached, requests, lock, query_vars, nrm_vars>>

\* A pending ReserveCommitJob runs and the backend fails the commit.
ReserveCommitJobFailed ==
    /\ lock = Free
    /\ commit_jobs.pending > 0
    /\ rsm_reserve_commit_failed
    /\ commit_jobs' = [commit_jobs EXCEPT !.pending = @ - 1]
    /\ UNCHANGED <<reached, requests, lock, query_vars, nrm_vars>>

\* The hold timer fires between two processors.
HoldTimerFires ==
    /\ lock = Free
    /\ ReserveTimeoutJob
    /\ UNCHANGED <<reached, processor_vars, query_vars, nrm_vars>>

ConcurrentNext ==
    \/ \E i \in Requests : ReserveCommitAcquire(i)
    \/ \E i \in Requests : ReserveCommitLoad(i)
    \/ \E i \in Requests : ReserveCommitUpdate(i)
    \/ \E i \in Requests : ReserveCommitRelease(i)
    \/ ReserveCommitJobConfirmed
    \/ ReserveCommitJobFailed
    \/ HoldTimerFires

Concurrent == ConcurrentInit /\ [][ConcurrentNext]_vars

----------------------------------------------------------------------------
(* The query jobs (src/supa/job/query.py) over the reservation,            *)
(* notification and result tables.  A table is a set of rows.  query.py    *)
(* names the reservation states as the revision of fsm.py it imports       *)
(* does: ReserveChecking, ReserveFailed, ReserveHeld.                      *)

\* Latest timestamp; last_modified is in 1..MaxTime, and an if_modified_since
\* of 0 is the unset field.
MaxTime == 2

\* Most rows of the result table.
MaxResults == 1

ConnectionIds == {"c1", "c2"}

\* Columns of a reservation that no event changes.
GlobalReservationId(connection_id) == IF connection_id = "c1" THEN "g1" ELSE "g2"
RequesterNsa(connection_id) == IF connection_id = "c1" THEN "nsaA" ELSE "nsaB"

ReserveChecking == "ReserveChecking"
ReserveFailed == "ReserveFailed"
ReserveHeld == "ReserveHeld"
ReservationStates == {ReserveChecking, ReserveFailed, ReserveHeld}

NotificationTypes == {"ReserveTimeoutRequest", "ErrorEventRequest",
                      "MessageDeliveryTimeoutRequest", "DataPlaneStateChangeRequest"}

\* func.max over a set of numbers: None when there is no row.  None is a
\* value apart from every id and timestamp.
None == 0 - 1
RECURSIVE func_max(_)
func_max(S) ==
    IF S = {} THEN None
    ELSE LET x == CHOOSE y \in S : TRUE
             m == func_max(S \ {x})
         IN  IF m = None THEN x ELSE IF x > m THEN x ELSE m

\* x if x else 0
or_zero(x) == IF x = None THEN 0 ELSE x

\* A processor stores the reservation of `connection_id` in a new state.
store_reservation(connection_id, state, now) ==
    /\ response = NoResponse
    /\ store' = [store EXCEPT !.reservations =
                    {r \in @ : r.connection_id # connection_id} \cup
                    {[connection_id |-> connection_id,
                      global_reservation_id |-> GlobalReservationId(connection_id),
                      requester_nsa |-> RequesterNsa(connection_id),
                      reservation_state |-> state,
                      last_modified |-> now]}]
    /\ UNCHANGED <<connection_vars, reached, processor_vars, response, nrm_vars>>

\* append_notification(connection_id, kind, payload) -> notification_id
append_notification(connection_id, type) ==
    LET ids == {n.notification_id : n \in {m \in store.notifications : m.connection_id = connection_id}}
    IN  /\ response = NoResponse
        /\ Cardinality(store.notifications) < MaxNotifications
        /\ \E r \in store.reservations : r.connection_id = connection_id
        /\ store' = [store EXCEPT !.notifications = @ \cup
                        {[connection_id |-> connection_id,
                          notification_id |-> or_zero(func_max(ids)) + 1,
                          notification_type |-> type]}]
        /\ UNCHANGED <<connection_vars, reached, processor_vars, response, nrm_vars>>

\* append_result(connection_id, ...) -> result_id
append_result(connection_id) ==
    LET ids == {n.result_id : n \in {m \in store.results : m.connection_id = connection_id}}
    IN  /\ response = NoResponse
        /\ Cardinality(store.results) < MaxResults
        /\ \E r \in store.reservations : r.connection_id = connection_id
        /\ store' = [store EXCEPT !.results = @ \cup
                        {[connection_id |-> connection_id,
                          result_id |-> or_zero(func_max(ids)) + 1]}]
        /\ UNCHANGED <<connection_vars, reached, processor_vars, response, nrm_vars>>

\* The requester has taken the message the last query job sent.
RequesterReceives ==
    /\ response # NoResponse
    /\ response' = NoResponse
    /\ UNCHANGED <<connection_vars, reached, processor_vars, store, nrm_vars>>

\* The query requests: every filter over the connections and their global
\* reservation ids, from either requester.
QueryRequests ==
    [header : [requester_nsa : {"nsaA", "nsaB"}],
     connection_id : {{}, {"c1"}},
     global_reservation_id : {{}, {"g2"}},
     if_modified_since : 0..MaxTime]

\* or_(*or_filter): the disjunction of the connection_id and the
\* global_reservation_id criteria, no criterion at all when both are empty.
or_filter(request, reservation) ==
    \/ request.connection_id = {} /\ request.global_reservation_id = {}
    \/ reservation.connection_id \in request.connection_id
    \/ reservation.global_reservation_id \in request.global_reservation_id

\* Variant: a reservation in ReserveFailed is returned.
state_filter_checking_only(reservation) ==
    reservation.reservation_state # ReserveChecking
state_filter(reservation) ==
    /\ reservation.reservation_state # ReserveChecking
    /\ reservation.reservation_state # ReserveFailed

\* Variant: a reservation modified at if_modified_since is returned.
modified_since_or_at(request, reservation) ==
    reservation.last_modified >= request.if_modified_since
modified_since(request, reservation) ==
    reservation.last_modified > request.if_modified_since

\* Variant: the newest of the reservations that are not Checking or Failed.
last_modified_of_listed(s) ==
    func_max({r.last_modified : r \in {x \in s.reservations : state_filter(x)}})
last_modified(s) ==
    func_max({r.last_modified : r \in s.reservations})

\* Variant: the highest notification id of the table.
max_notification_id_any(s, connection_id) ==
    func_max({n.notification_id : n \in s.notifications})
max_notification_id(s, connection_id) ==
    func_max({n.notification_id :
                n \in {m \in s.notifications : m.connection_id = connection_id}})

\* Variant: the highest result id of the table.
max_result_id_any(s, connection_id) ==
    func_max({n.result_id : n \in s.results})
max_result_id(s, connection_id) ==
    func_max({n.result_id :
                n \in {m \in s.results : m.connection_id = connection_id}})

query_result(s, reservation) ==
    [connection_id |-> reservation.connection_id,
     requester_nsa |-> reservation.requester_nsa,
     global_reservation_id |-> reservation.global_reservation_id,
     connection_states |-> [reservation_state |-> reservation.reservation_state],
     notification_id |-> or_zero(max_notification_id(s, reservation.connection_id)),
     result_id |-> or_zero(max_result_id(s, reservation.connection_id))]

\* FromDatetime(None) raises: the job ends without a message.
Raised == [raised |-> "FromDatetime"]

create_query_confirmed_request(s, request) ==
    LET reservations == {r \in s.reservations :
                            /\ or_filter(request, r)
                            /\ state_filter(r)
                            /\ modified_since(request, r)}
    IN  IF last_modified(s) = None
        THEN Raised
        ELSE [header |-> request.header,
              last_modified |-> last_modified(s),
              reservation |-> {query_result(s, r) : r \in reservations}]

\* Variant: the session marks the reservations it read as modified now.
db_session_touch(s) ==
    [s EXCEPT !.reservations = {[r EXCEPT !.last_modified = MaxTime] : r \in @}]
\* with db_session() as session: the tables after a block that only reads.
db_session(s) == s

QuerySummaryJob ==
    \E request \in QueryRequests :
        /\ response = NoResponse
        /\ response' = [operation |-> "QuerySummaryConfirmed",
                        request |-> request,
                        message |-> create_query_confirmed_request(store, request)]
        /\ store' = db_session(store)
        /\ UNCHANGED <<connection_vars, reached, processor_vars, nrm_vars>>

\* Variant: the recursive query ignores if_modified_since.
QueryRecursiveJobUnconditional ==
    \E request \in QueryRequests :
        /\ response = NoResponse
        /\ response' = [operation |-> "QueryRecursiveConfirmed",
                        request |-> request,
                        message |-> create_query_confirmed_request(
                                        store, [request EXCEPT !.if_modified_since = 0])]
        /\ store' = db_session(store)
        /\ UNCHANGED <<connection_vars, reached, processor_vars, nrm_vars>>

QueryRecursiveJob ==
    \E request \in QueryRequests :
        /\ response = NoResponse
        /\ response' = [operation |-> "QueryRecursiveConfirmed",
                        request |-> request,
                        message |-> create_query_confirmed_request(store, request)]
        /\ store' = db_session(store)
        /\ UNCHANGED <<connection_vars, reached, processor_vars, nrm_vars>>

SummaryNext ==
    \/ \E c \in ConnectionIds, state \in ReservationStates, now \in 1..MaxTime :
            store_reservation(c, state, now)
    \/ \E c \in ConnectionIds : append_notification(c, "ReserveTimeoutRequest")
    \/ \E c \in ConnectionIds : append_result(c)
    \/ QuerySummaryJob
    \/ QueryRecursiveJob
    \/ RequesterReceives

Summary == Init /\ [][SummaryNext]_vars

\* The notification queries: any range of ids of either connection.
QueryNotificationRequests ==
    [header : [requester_nsa : {"nsaA", "nsaB"}],
     connection_id : ConnectionIds,
     start_notification_id : 0..MaxNotifications,
     end_notification_id : 0..MaxNotifications]

\* Variant: the range leaves its start out.
from_start_exclusive(request, notification) ==
    request.start_notification_id > 0
        => notification.notification_id > request.start_notification_id
from_start(request, notification) ==
    request.start_notification_id > 0
        => notification.notification_id >= request.start_notification_id

up_to_end(request, notification) ==
    request.end_notification_id > 0
        => notification.notification_id <= request.end_notification_id

\* FromString(notification_data): the message the notification was stored from.
FromString(notification) ==
    [connection_id |-> notification.connection_id,
     notification_id |-> notification.notification_id]

create_query_notification_confirmed_request(s, request) ==
    LET query == {n \in s.notifications :
                    /\ n.connection_id = request.connection_id
                    /\ from_start(request, n)
                    /\ up_to_end(request, n)}
        of(type) == {FromString(n) : n \in {m \in query : m.notification_type = type}}
    IN  [header |-> request.header,
         reserve_timeout |-> of("ReserveTimeoutRequest"),
         error_event |-> of("ErrorEventRequest"),
         message_delivery_timeout |-> of("MessageDeliveryTimeoutRequest"),
         data_plane_state_change |-> of("DataPlaneStateChangeRequest")]

QueryNotificationJob ==
    \E request \in QueryNotificationRequests :
        /\ response = NoResponse
        /\ response' = [operation |-> "QueryNotificationConfirmed",
                        request |-> request,
                        message |-> create_query_notification_confirmed_request(store, request)]
        /\ store' = db_session(store)
        /\ UNCHANGED <<connection_vars, reached, processor_vars, nrm_vars>>

\* The processor that works on `connection_id` and holds its lock meanwhile.
Holder(connection_id) == IF connection_id = "c1" THEN 1 ELSE 2

QueriesInit ==
    /\ reservation_state = RSMInitial
    /\ provisioning_state = PSMInitial
    /\ lifecycle_state = LSMInitial
    /\ data_plane_state = DPSMInitial
    /\ hold_timer = FALSE
    /\ notifications = <<>>
    /\ last = [machine |-> "none", event |-> "none", source |-> "none", result |-> "none"]
    /\ calls = <<>>
    /\ reached = {}
    /\ NoRequests
    /\ store = [reservations |->
                    {[connection_id |-> c,
                      global_reservation_id |-> GlobalReservationId(c),
                      requester_nsa |-> RequesterNsa(c),
                      reservation_state |-> IF c = "c1" THEN ReserveHeld ELSE ReserveChecking,
                      last_modified |-> IF c = "c1" THEN 1 ELSE MaxTime] : c \in ConnectionIds},
                notifications |-> {},
                results |-> {}]
    /\ response = NoResponse
    /\ NoNrm

\* A processor takes the lock of the connection it works on.
ProcessorAcquire(connection_id) ==
    /\ response = NoResponse
    /\ lock = Free
    /\ lock' = Holder(connection_id)
    /\ UNCHANGED <<connection_vars, reached, requests, commit_jobs, query_vars, nrm_vars>>

\* The processor holding the lock appends a notification.
ProcessorNotifies(connection_id, type) ==
    /\ lock = Holder(connection_id)
    /\ append_notification(connection_id, type)

\* The processor holding the lock is done.
ProcessorRelease ==
    /\ response = NoResponse
    /\ lock # Free
    /\ lock' = Free
    /\ UNCHANGED <<connection_vars, reached, requests, commit_jobs, query_vars, nrm_vars>>

QueriesNext ==
    \/ \E c \in ConnectionIds : ProcessorAcquire(c)
    \/ \E c \in ConnectionIds, type \in NotificationTypes : ProcessorNotifies(c, type)
    \/ ProcessorRelease
    \/ QuerySummaryJob
    \/ QueryRecursiveJob
    \/ QueryNotificationJob
    \/ RequesterReceives

Queries == QueriesInit /\ [][QueriesNext]_vars

----------------------------------------------------------------------------
(* The query jobs in the job scheduler, over stops and restarts of the     *)
(* provider.  scheduler.run counts the restarts; a job carries the run it  *)
(* was added in, a confirmation the run it was sent in.                    *)

\* Most restarts of the provider.
MaxRestarts == 1

QueryJobs == {"QuerySummaryJob", "QueryRecursiveJob", "QueryNotificationJob"}

\* trigger(): DateTrigger(run_date=None), run immediately.
trigger(job) == [run_date |-> "None"]

\* Variant: the jobs of the class that had not run are recovered.
recover_pending(cls) == {j \in scheduler.jobs : j.job = cls}
\* recover(): the jobs of the class to run again after a restart.
recover(cls) == {}

\* A query request arrives and its job is added to the scheduler.
add_job(job) ==
    /\ scheduler.up
    /\ \A j \in scheduler.jobs : j.job # job
    /\ scheduler' = [scheduler EXCEPT !.jobs =
                        @ \cup {[job |-> job, added |-> scheduler.run, trigger |-> trigger(job)]}]
    /\ UNCHANGED <<connection_vars, reached, processor_vars, query_vars,
                   backend, sessions, switch, nrm_jobs, stp>>

\* The scheduler runs a job whose trigger is due: the job sends its
\* confirmation to the requester.
run_job(j) ==
    /\ scheduler.up
    /\ j \in scheduler.jobs
    /\ j.trigger.run_date = "None"
    /\ scheduler' = [scheduler EXCEPT
                        !.jobs = @ \ {j},
                        !.sent = @ \cup {[job |-> j.job, added |-> j.added, sent |-> scheduler.run]}]
    /\ UNCHANGED <<connection_vars, reached, processor_vars, query_vars,
                   backend, sessions, switch, nrm_jobs, stp>>

\* The provider stops.
Stop ==
    /\ scheduler.up
    /\ scheduler' = [scheduler EXCEPT !.up = FALSE]
    /\ UNCHANGED <<connection_vars, reached, processor_vars, query_vars,
                   backend, sessions, switch, nrm_jobs, stp>>

\* The provider starts again and recovers the jobs of every job class.
Restart ==
    /\ ~scheduler.up
    /\ scheduler.run < MaxRestarts
    /\ scheduler' = [scheduler EXCEPT
                        !.up = TRUE,
                        !.run = @ + 1,
                        !.jobs = UNION {recover(cls) : cls \in QueryJobs}]
    /\ UNCHANGED <<connection_vars, reached, processor_vars, query_vars,
                   backend, sessions, switch, nrm_jobs, stp>>

SchedulerNext ==
    \/ \E job \in QueryJobs : add_job(job)
    \/ \E j \in scheduler.jobs : run_job(j)
    \/ Stop
    \/ Restart

Scheduler == Init /\ [][SchedulerNext]_vars

----------------------------------------------------------------------------
(* The topology of the NRM backends (aristaEOS4, dellOS10 and              *)
(* yaml_topology_test share _process_stp_config).  A dict is a function    *)
(* from its keys; a string is the sequence of its parts.                   *)

Prefixes == {<<"urn:ogf:network:a">>, <<"urn:ogf:network:b">>}
StpIds == {<<"p1">>, <<"p2">>}
Remotes == [prefix_urn : Prefixes, id : StpIds]
RemoteKeys == {"remote_stp", "remote_stp_in", "remote_stp_out"}

\* dict.pop(key): the dict without the key.
pop(dict, key) == [k \in DOMAIN dict \ {key} |-> dict[k]]
\* dict[key] = value
setitem(dict, key, value) ==
    [k \in DOMAIN dict \cup {key} |-> IF k = key THEN value ELSE dict[k]]

\* The entries of the stps configuration file: the fields of the STP and
\* any of the remote_stp keys.
StpConfigs ==
    LET fields == [stp_id |-> <<"stp1">>, port_id |-> <<"Ethernet 1">>]
        with(dict, key) == {dict} \cup {setitem(dict, key, r) : r \in Remotes}
    IN UNION {UNION {with(c2, "remote_stp_out") : c2 \in with(c1, "remote_stp_in")}
                : c1 \in with(fields, "remote_stp")}

\* Variant: the bidirectional aliases are not swapped.
process_stp_config_straight(config) ==
    LET processed == config
        bidirectional ==
            IF "remote_stp" \in DOMAIN processed
            THEN LET remote == processed["remote_stp"]
                     prefix == remote.prefix_urn
                     id == remote.id
                 IN setitem(setitem(pop(processed, "remote_stp"),
                        "is_alias_in", prefix \o <<":">> \o id \o <<":", "in">>),
                        "is_alias_out", prefix \o <<":">> \o id \o <<":", "out">>)
            ELSE processed
        directional_in ==
            IF "remote_stp_in" \in DOMAIN bidirectional
            THEN LET remote == bidirectional["remote_stp_in"]
                 IN setitem(pop(bidirectional, "remote_stp_in"),
                        "is_alias_in", remote.prefix_urn \o <<":">> \o remote.id)
            ELSE bidirectional
        directional_out ==
            IF "remote_stp_out" \in DOMAIN directional_in
            THEN LET remote == directional_in["remote_stp_out"]
                 IN setitem(pop(directional_in, "remote_stp_out"),
                        "is_alias_out", remote.prefix_urn \o <<":">> \o remote.id)
            ELSE directional_in
    IN [config |-> config, STP |-> directional_out]

\* _process_stp_config: the STP made of a copy of the entry, and the entry
\* as the call leaves it.
process_stp_config(config) ==
    LET processed == config
        bidirectional ==
            IF "remote_stp" \in DOMAIN processed
            THEN LET remote == processed["remote_stp"]
                     prefix == remote.prefix_urn
                     id == remote.id
                 IN setitem(setitem(pop(processed, "remote_stp"),
                        "is_alias_in", prefix \o <<":">> \o id \o <<":", "out">>),
                        "is_alias_out", prefix \o <<":">> \o id \o <<":", "in">>)
            ELSE processed
        directional_in ==
            IF "remote_stp_in" \in DOMAIN bidirectional
            THEN LET remote == bidirectional["remote_stp_in"]
                 IN setitem(pop(bidirectional, "remote_stp_in"),
                        "is_alias_in", remote.prefix_urn \o <<":">> \o remote.id)
            ELSE bidirectional
        directional_out ==
            IF "remote_stp_out" \in DOMAIN directional_in
            THEN LET remote == directional_in["remote_stp_out"]
                 IN setitem(pop(directional_in, "remote_stp_out"),
                        "is_alias_out", remote.prefix_urn \o <<":">> \o remote.id)
            ELSE directional_in
    IN [config |-> config, STP |-> directional_out]

\* The stps file holds one entry and the topology is not loaded yet.
TopologyInit ==
    /\ reservation_state = RSMInitial
    /\ provisioning_state = PSMInitial
    /\ lifecycle_state = LSMInitial
    /\ data_plane_state = DPSMInitial
    /\ hold_timer = FALSE
    /\ notifications = <<>>
    /\ last = [machine |-> "none", event |-> "none", source |-> "none", result |-> "none"]
    /\ calls = <<>>
    /\ reached = {}
    /\ NoRequests
    /\ NoQueries
    /\ scheduler = [up |-> TRUE, run |-> 0, jobs |-> {}, sent |-> {}]
    /\ backend = [name |-> "none"]
    /\ sessions = <<>>
    /\ switch = [vlans |-> {}, trunk |-> {}, allowed |-> {}]
    /\ nrm_jobs = <<>>
    /\ \E config \in StpConfigs : stp = [stp_configs |-> <<config>>, topology |-> <<>>]

\* topology(): every entry of the file is processed into an STP.
topology ==
    /\ stp.topology = <<>>
    /\ LET done == [i \in DOMAIN stp.stp_configs |-> process_stp_config(stp.stp_configs[i])]
       IN stp' = [stp_configs |-> [i \in DOMAIN done |-> done[i].config],
                  topology |-> [i \in DOMAIN done |-> done[i].STP]]
    /\ UNCHANGED <<connection_vars, reached, processor_vars, query_vars,
                   scheduler, backend, sessions, switch, nrm_jobs>>

TopologyNext == topology

Topology == TopologyInit /\ [][TopologyNext]_vars

----------------------------------------------------------------------------
(* The NRM backends: aristaEOS4 (paramiko), dellOS10 and                   *)
(* clab_aristaCEOS4_netmiko (netmiko) and yaml_topology_test (no switch).  *)
(* A job calls a primitive of the single backend instance; nrm_jobs[j] is  *)
(* the frame of the call of job j.  A string built from parts is the       *)
(* sequence of its parts.                                                  *)

BackendNames == {"aristaEOS4", "dellOS10", "clab_aristaCEOS4_netmiko", "yaml_topology_test"}
Netmiko == {"dellOS10", "clab_aristaCEOS4_netmiko"}
Primitives ==
    {"activate", "deactivate", "reserve", "reserve_timeout", "reserve_commit",
     "reserve_abort", "provision", "release", "terminate"}

\* The VLAN of the backend tests.
TestVlan == 1799
Vlans == {TestVlan, TestVlan + 1}
SrcPort == "Ethernet 1"
DstPort == "Ethernet 2"
\* A circuit_id persisted by an earlier activation, and the one uuid4() makes.
OldCircuit == "urn:uuid:old"
uuid4_urn == "urn:uuid:new"
CircuitIds == {"", OldCircuit}

\* BackendSettings: the ssh credentials and the CLI settings.
BackendSettings ==
    [ssh_private_key_path : {"", "missing", "present"},
     ssh_password : {"", "secret"},
     cli_prompt : {"ceos2"},
     cli_needs_enable : BOOLEAN]

\* What a call gives back to its caller.
NoResult == [pending |-> TRUE]
ReturnNone == [returns |-> "None"]
Return(value) == [returns |-> "str", value |-> value]
NsiException(error, message) ==
    [raises |-> "NsiException", error |-> error, message |-> message]
\* An exception of another class (paramiko, netmiko, socket, AssertionError).
Exception(class, text) == [raises |-> class, message |-> <<text>>]
\* "<prefix>: <str(exception)>"
format(prefix, exception) == <<prefix>> \o exception.message

IdleJob == [pc |-> "idle", result |-> NoResult]
Running(j) == nrm_jobs[j].pc # "idle"

\* The command lists.
command(text) == [command |-> text]
create_vlan(vlan) == [command |-> "vlan", vlan |-> vlan]
interface(port) == [command |-> "interface", port |-> port]
trunk_add_vlan(vlan) == [command |-> "switchport trunk allowed vlan add", vlan |-> vlan]
trunk_rem_vlan(vlan) == [command |-> "switchport trunk allowed vlan remove", vlan |-> vlan]
vlan_name(vlan) == [command |-> "description", vlan |-> vlan]
int_description(port) == [command |-> "description", port |-> port]
mode_trunk == command("switchport mode trunk")
cmdexit == command("exit")

\* aristaEOS4 and clab_aristaCEOS4_netmiko.
create_configure_commands(source_port, dest_port, vlan) ==
    <<create_vlan(vlan), cmdexit,
      interface(source_port), mode_trunk, trunk_add_vlan(vlan), cmdexit,
      interface(dest_port), mode_trunk, trunk_add_vlan(vlan), cmdexit>>

\* dellOS10 also names the VLAN and describes the ports.
dell_create_configure_commands(source_port, dest_port, vlan) ==
    <<create_vlan(vlan), vlan_name(vlan), cmdexit,
      interface(source_port), int_description(source_port), mode_trunk, trunk_add_vlan(vlan), cmdexit,
      interface(dest_port), int_description(dest_port), mode_trunk, trunk_add_vlan(vlan), cmdexit>>

\* Variant: the VLAN is taken off the source port only.
create_delete_commands_source_only(source_port, dest_port, vlan) ==
    <<interface(source_port), trunk_rem_vlan(vlan), cmdexit>>
\* Variant: every VLAN is taken off the two ports.
create_delete_commands_every_vlan(source_port, dest_port, vlan) ==
    <<interface(source_port), trunk_rem_vlan(TestVlan), trunk_rem_vlan(TestVlan + 1), cmdexit,
      interface(dest_port), trunk_rem_vlan(TestVlan), trunk_rem_vlan(TestVlan + 1), cmdexit>>
create_delete_commands(source_port, dest_port, vlan) ==
    <<interface(source_port), trunk_rem_vlan(vlan), cmdexit,
      interface(dest_port), trunk_rem_vlan(vlan), cmdexit>>

\* The switch: its CLI, one per session, and its configuration.
\* The prompt the CLI prints in a mode.
prompt(mode) ==
    CASE mode = "user" -> <<"ceos2", ">">>
      [] mode = "privileged" -> <<"ceos2", "#">>
      [] OTHER -> <<"ceos2", "(", mode, ")", "#">>

\* line.endswith(suffix)
endswith(line, suffix) ==
    /\ Len(line) >= Len(suffix)
    /\ SubSeq(line, Len(line) - Len(suffix) + 1, Len(line)) = suffix

\* The CLI of a session executes one command: the mode and interface it
\* ends in, the configuration it leaves, and whether it logged out.
execute(cli, config, cmd) ==
    LET stay == [mode |-> cli.mode, port |-> cli.port, config |-> config, logout |-> FALSE]
        configuring == cli.mode \in {"config", "config-vlan", "config-if"}
    IN CASE cmd.command = "enable" /\ cli.mode = "user" ->
                [stay EXCEPT !.mode = "privileged"]
         [] cmd.command = "configure" /\ cli.mode = "privileged" ->
                [stay EXCEPT !.mode = "config"]
         [] cmd.command = "write" /\ cli.mode = "privileged" -> stay
         [] cmd.command = "exit" /\ cli.mode \in {"user", "privileged"} ->
                [stay EXCEPT !.logout = TRUE]
         [] cmd.command = "exit" /\ cli.mode = "config" ->
                [stay EXCEPT !.mode = "privileged"]
         [] cmd.command = "exit" /\ cli.mode \in {"config-vlan", "config-if"} ->
                [stay EXCEPT !.mode = "config", !.port = ""]
         [] cmd.command = "vlan" /\ configuring ->
                [stay EXCEPT !.mode = "config-vlan", !.port = "",
                             !.config.vlans = @ \cup {cmd.vlan}]
         [] cmd.command = "interface" /\ configuring ->
                [stay EXCEPT !.mode = "config-if", !.port = cmd.port]
         [] cmd.command = "switchport mode trunk" /\ cli.mode = "config-if" ->
                [stay EXCEPT !.config.trunk = @ \cup {cli.port}]
         [] cmd.command = "switchport trunk allowed vlan add" /\ cli.mode = "config-if" ->
                [stay EXCEPT !.config.allowed = @ \cup {<<cli.port, cmd.vlan>>}]
         [] cmd.command = "switchport trunk allowed vlan remove" /\ cli.mode = "config-if" ->
                [stay EXCEPT !.config.allowed = @ \ {<<cli.port, cmd.vlan>>}]
         [] OTHER -> stay

\* A session of the switch: the SSH client, the shell channel on it, the
\* CLI behind the channel and what passed over the channel.
\*   out:  what the switch printed and the client has not read yet
\*   eof:  the switch closed the channel
\*   sent, read, closed: the jobs that sent commands on the channel, that
\*         read from it, and that closed it
Session(job, client, channel, mode) ==
    [opened_by |-> job, client |-> client, channel |-> channel,
     mode |-> mode, port |-> "",
     out |-> IF channel = "open" THEN prompt(mode) ELSE <<>>,
     eof |-> FALSE, sent |-> {}, read |-> {}, closed |-> <<>>]

Usable(session) == session.channel = "open" /\ ~session.eof

\* channel.send(cmd) on an open channel: the CLI executes the command and
\* prints its prompt.
channel_send(session, job, cmd) ==
    LET done == execute(session, switch, cmd)
    IN [session EXCEPT
            !.mode = done.mode,
            !.port = done.port,
            !.eof = done.logout,
            !.out = IF done.logout THEN @ ELSE @ \o prompt(done.mode),
            !.sent = @ \cup {job}]

\* _close_ssh_shell: self.channel.close(), then self.sshclient.close(),
\* which also ends the channels of that client.
close_ssh_shell(job) ==
    [i \in DOMAIN sessions |->
        LET channel_closed ==
                IF i = backend.channel
                THEN [sessions[i] EXCEPT
                        !.channel = "closed",
                        !.closed = Append(@, [job |-> job, closes |-> "channel"])]
                ELSE sessions[i]
        IN IF i = backend.sshclient
           THEN [channel_closed EXCEPT
                    !.client = "closed",
                    !.channel = IF @ = "none" THEN @ ELSE "closed",
                    !.closed = Append(@, [job |-> job, closes |-> "sshclient"])]
           ELSE channel_closed]

NrmFrame == UNCHANGED <<connection_vars, reached, processor_vars, query_vars, scheduler, stp>>

\* The frame of a call of a primitive. log holds what the call did on its
\* channel, in order: the prompts it waited for and read, and the commands
\* it sent.
Frame(primitive, connection_id, src_vlan, dst_vlan, circuit_id) ==
    [pc |-> primitive, primitive |-> primitive, connection_id |-> connection_id,
     src_port_id |-> SrcPort, src_vlan |-> src_vlan,
     dst_port_id |-> DstPort, dst_vlan |-> dst_vlan,
     circuit_id |-> circuit_id,
     commands |-> <<>>, todo |-> <<>>, line |-> <<>>, reading |-> FALSE, conn |-> 0,
     log |-> <<>>, result |-> NoResult]

\* An exception leaves the call: activate of aristaEOS4 catches every
\* exception of its body and raises NsiException in its place.
propagate(job, exception) ==
    IF backend.name = "aristaEOS4" /\ job.primitive = "activate"
    THEN NsiException("GenericRmError", format("Failed to activate connection", exception))
    ELSE exception

Raise(j, exception) ==
    nrm_jobs' = [nrm_jobs EXCEPT ![j] =
                    [@ EXCEPT !.pc = "idle", !.result = propagate(nrm_jobs[j], exception)]]

\* Variant: no circuit_id is generated.
activate_returns_given(name, circuit_id) == circuit_id
\* The circuit_id activate returns once the switch is configured.
activate_returns(name, circuit_id) ==
    IF name \in {"aristaEOS4", "dellOS10"}
    THEN IF circuit_id = "" THEN uuid4_urn ELSE circuit_id
    ELSE uuid4_urn

\* _send_commands is done and the primitive returns.
Returns(job) ==
    [job EXCEPT !.pc = "idle",
                !.result = IF job.primitive = "activate"
                           THEN Return(activate_returns(backend.name, job.circuit_id))
                           ELSE ReturnNone]

\* A job calls a primitive of the backend. Calls come one after another
\* here; the sessions of the call before are forgotten.
Call(j, primitive, src_vlan, dst_vlan, circuit_id) ==
    /\ \A k \in DOMAIN nrm_jobs : ~Running(k)
    /\ nrm_jobs' = [nrm_jobs EXCEPT ![j] = Frame(primitive, "c1", src_vlan, dst_vlan, circuit_id)]
    /\ sessions' = <<>>
    /\ backend' = [backend EXCEPT !.sshclient = 0, !.channel = 0]
    /\ UNCHANGED switch
    /\ NrmFrame

\* Variant: release and terminate take the VLANs off the trunks.
no_op_clearing(j) ==
    /\ nrm_jobs[j].pc \in Primitives \ {"activate", "deactivate"}
    /\ nrm_jobs' = [nrm_jobs EXCEPT ![j] = [@ EXCEPT !.pc = "idle", !.result = ReturnNone]]
    /\ switch' = IF nrm_jobs[j].pc \in {"release", "terminate"}
                 THEN [switch EXCEPT !.allowed = {}]
                 ELSE switch
    /\ UNCHANGED <<backend, sessions>>
    /\ NrmFrame

\* reserve, reserve_timeout, reserve_commit, reserve_abort, provision,
\* release, terminate: logged only.
no_op(j) ==
    /\ nrm_jobs[j].pc \in Primitives \ {"activate", "deactivate"}
    /\ nrm_jobs' = [nrm_jobs EXCEPT ![j] = [@ EXCEPT !.pc = "idle", !.result = ReturnNone]]
    /\ UNCHANGED <<backend, sessions, switch>>
    /\ NrmFrame

\* The pc at the entry of _send_commands of the backend.
send_commands_entry ==
    IF backend.name = "aristaEOS4" THEN "get_ssh_shell" ELSE "check_ssh_pass_keys"

\* Variant: VLAN translation is let through.
translates_any(src_vlan, dst_vlan) == FALSE
\* if src_vlan != dst_vlan
translates(src_vlan, dst_vlan) == src_vlan # dst_vlan

\* activate up to its call of _send_commands.
activate(j) ==
    /\ nrm_jobs[j].pc = "activate"
    /\ LET job == nrm_jobs[j]
       IN IF translates(job.src_vlan, job.dst_vlan)
          THEN nrm_jobs' = [nrm_jobs EXCEPT ![j] =
                    [@ EXCEPT !.pc = "idle",
                              !.result = NsiException("GenericRmError", <<"VLANs must match">>)]]
          ELSE IF backend.name = "yaml_topology_test"
          THEN nrm_jobs' = [nrm_jobs EXCEPT ![j] = Returns(job)]
          ELSE nrm_jobs' = [nrm_jobs EXCEPT ![j] =
                    [@ EXCEPT !.pc = send_commands_entry,
                              !.commands =
                                  IF backend.name = "dellOS10"
                                  THEN dell_create_configure_commands(job.src_port_id, job.dst_port_id, job.dst_vlan)
                                  ELSE create_configure_commands(job.src_port_id, job.dst_port_id, job.dst_vlan)]]
    /\ UNCHANGED <<backend, sessions, switch>>
    /\ NrmFrame

\* deactivate up to its call of _send_commands.
deactivate(j) ==
    /\ nrm_jobs[j].pc = "deactivate"
    /\ LET job == nrm_jobs[j]
       IN IF backend.name = "yaml_topology_test"
          THEN nrm_jobs' = [nrm_jobs EXCEPT ![j] = Returns(job)]
          ELSE nrm_jobs' = [nrm_jobs EXCEPT ![j] =
                    [@ EXCEPT !.pc = send_commands_entry,
                              !.commands = create_delete_commands(job.src_port_id, job.dst_port_id, job.dst_vlan)]]
    /\ UNCHANGED <<backend, sessions, switch>>
    /\ NrmFrame

\* aristaEOS4 _send_commands, as the list of its steps: a wait reads the
\* channel until the line ends with the suffix, a send writes a command.
Wait(suffix) == [wait |-> suffix]
Send(cmd) == [send |-> cmd]
\* Variant: the commit is sent from the configuration mode, before the exit.
send_commands_script_commit_first(commands) ==
    LET cli_prompt == backend.settings.cli_prompt
    IN (IF backend.settings.cli_needs_enable
        THEN <<Wait(<<cli_prompt, ">">>), Send(command("enable"))>>
        ELSE <<>>)
       \o <<Wait(<<cli_prompt, "#">>),
            Send(command("configure")),
            Wait(<<cli_prompt, "(", "config", ")", "#">>)>>
       \o [i \in 1..(2 * Len(commands)) |->
              IF i % 2 = 1 THEN Send(commands[(i + 1) \div 2]) ELSE Wait(<<")", "#">>)]
       \o <<Send(command("write")), Wait(<<")", "#">>),
            Send(cmdexit), Wait(<<cli_prompt, "#">>)>>
send_commands_script(commands) ==
    LET cli_prompt == backend.settings.cli_prompt
    IN (IF backend.settings.cli_needs_enable
        THEN <<Wait(<<cli_prompt, ">">>), Send(command("enable"))>>
        ELSE <<>>)
       \o <<Wait(<<cli_prompt, "#">>),
            Send(command("configure")),
            Wait(<<cli_prompt, "(", "config", ")", "#">>)>>
       \o [i \in 1..(2 * Len(commands)) |->
              IF i % 2 = 1 THEN Send(commands[(i + 1) \div 2]) ELSE Wait(<<")", "#">>)]
       \o <<Send(cmdexit), Wait(<<cli_prompt, "#">>),
            Send(command("write")), Wait(<<cli_prompt, "#">>)>>

\* _get_ssh_shell: a new SSH client is connected with the key or the
\* password and a shell is opened on it. The client and the channel are
\* kept in self.sshclient and self.channel of the backend instance.
get_ssh_shell(j) ==
    /\ nrm_jobs[j].pc = "get_ssh_shell"
    /\ LET settings == backend.settings
           new == Len(sessions) + 1
           failed(exception) ==
               /\ sessions' = Append(sessions, Session(j, "new", "none", "user"))
               /\ backend' = [backend EXCEPT !.sshclient = new]
               /\ Raise(j, exception)
       IN \/ /\ settings.ssh_private_key_path = "missing"
             /\ failed(NsiException("GenericRmError",
                    <<"Incorrect private key path or file does not exist">>))
          \/ /\ settings.ssh_private_key_path = ""
             /\ settings.ssh_password = ""
             /\ failed(NsiException("GenericRmError", <<"No keys or password supplied">>))
          \/ /\ settings.ssh_private_key_path = "present" \/
                (settings.ssh_private_key_path = "" /\ settings.ssh_password # "")
             /\ \/ failed(NsiException("GenericRmError", <<"Unable to connect">>))
                \/ /\ sessions' = Append(sessions, Session(j, "open", "none", "user"))
                   /\ backend' = [backend EXCEPT !.sshclient = new]
                   /\ Raise(j, Exception("SSHException", "Unable to open channel"))
                \/ /\ sessions' = Append(sessions,
                        Session(j, "open", "open",
                                IF settings.cli_needs_enable THEN "user" ELSE "privileged"))
                   /\ backend' = [backend EXCEPT !.sshclient = new, !.channel = new]
                   /\ nrm_jobs' = [nrm_jobs EXCEPT ![j] =
                        [@ EXCEPT !.pc = "send_commands",
                                  !.todo = send_commands_script(nrm_jobs[j].commands)]]
    /\ UNCHANGED switch
    /\ NrmFrame

\* The except clause of _send_commands: the shell is closed and
\* NsiException is raised.
Except(j, exception) ==
    /\ sessions' = close_ssh_shell(j)
    /\ Raise(j, NsiException("GenericRmError", format("Error sending commands", exception)))

\* The test of a prompt-wait loop: the loop is left when the line ends
\* with the awaited prompt, otherwise its body reads the channel.
while_prompt(j) ==
    /\ nrm_jobs[j].pc = "send_commands"
    /\ nrm_jobs[j].todo # <<>>
    /\ "wait" \in DOMAIN Head(nrm_jobs[j].todo)
    /\ ~nrm_jobs[j].reading
    /\ nrm_jobs' = [nrm_jobs EXCEPT ![j] =
            IF endswith(@.line, Head(@.todo).wait)
            THEN [@ EXCEPT !.line = <<>>, !.todo = Tail(@),
                           !.log = Append(@, [prompt |-> Head(nrm_jobs[j].todo).wait])]
            ELSE [@ EXCEPT !.reading = TRUE]]
    /\ UNCHANGED <<backend, sessions, switch>>
    /\ NrmFrame

\* resp = self.channel.recv(999); line += resp.  What was printed is
\* read; nothing is read from a channel that is closed; on an open channel
\* with nothing to read the call times out.
recv(j) ==
    /\ nrm_jobs[j].pc = "send_commands"
    /\ nrm_jobs[j].reading
    /\ LET c == backend.channel
           session == sessions[c]
       IN IF session.out # <<>>
          THEN /\ sessions' = [sessions EXCEPT ![c] =
                        [@ EXCEPT !.out = <<>>, !.read = @ \cup {j}]]
               /\ nrm_jobs' = [nrm_jobs EXCEPT ![j] =
                        [@ EXCEPT !.line = @ \o session.out, !.reading = FALSE]]
          ELSE IF ~Usable(session)
          THEN /\ sessions' = [sessions EXCEPT ![c] = [@ EXCEPT !.read = @ \cup {j}]]
               /\ nrm_jobs' = [nrm_jobs EXCEPT ![j] = [@ EXCEPT !.reading = FALSE]]
          ELSE Except(j, Exception("socket.timeout", "timed out"))
    /\ UNCHANGED <<backend, switch>>
    /\ NrmFrame

\* self.channel.send(cmd + line_termination)
send(j) ==
    /\ nrm_jobs[j].pc = "send_commands"
    /\ nrm_jobs[j].todo # <<>>
    /\ "send" \in DOMAIN Head(nrm_jobs[j].todo)
    /\ LET c == backend.channel
           cmd == Head(nrm_jobs[j].todo).send
       IN IF Usable(sessions[c])
          THEN /\ sessions' = [sessions EXCEPT ![c] = channel_send(@, j, cmd)]
               /\ switch' = execute(sessions[c], switch, cmd).config
               /\ nrm_jobs' = [nrm_jobs EXCEPT ![j] =
                        [@ EXCEPT !.todo = Tail(@), !.log = Append(@, [sent |-> cmd])]]
          ELSE /\ Except(j, Exception("OSError", "Socket is closed"))
               /\ UNCHANGED switch
    /\ UNCHANGED backend
    /\ NrmFrame

\* The last prompt was read: the shell is closed and the primitive returns.
send_commands_return(j) ==
    /\ nrm_jobs[j].pc = "send_commands"
    /\ nrm_jobs[j].todo = <<>>
    /\ sessions' = close_ssh_shell(j)
    /\ nrm_jobs' = [nrm_jobs EXCEPT ![j] = Returns(@)]
    /\ UNCHANGED <<backend, switch>>
    /\ NrmFrame

\* dellOS10 and clab_aristaCEOS4_netmiko: _send_commands with netmiko. The
\* connection is local to the call; every exception of the body is raised
\* as NsiException.
netmiko_error(exception) ==
    IF backend.name = "dellOS10"
    THEN NsiException("GenericRmError", format("Error sending commands", exception))
    ELSE NsiException("GenericRmError", <<"Error sending commands">>)

\* _check_ssh_pass_keys and ConnectHandler(...): the connection is made.
check_ssh_pass_keys(j) ==
    /\ nrm_jobs[j].pc = "check_ssh_pass_keys"
    /\ LET settings == backend.settings
       IN \/ /\ settings.ssh_private_key_path = "missing"
             /\ Raise(j, netmiko_error(NsiException("GenericRmError",
                    <<"Incorrect private key path or file does not exist">>)))
             /\ UNCHANGED sessions
          \/ /\ settings.ssh_private_key_path = ""
             /\ settings.ssh_password = ""
             /\ Raise(j, netmiko_error(Exception("AssertionError", "No keys or password supplied")))
             /\ UNCHANGED sessions
          \/ /\ settings.ssh_private_key_path = "present" \/
                (settings.ssh_private_key_path = "" /\ settings.ssh_password # "")
             /\ \/ /\ Raise(j, netmiko_error(Exception("NetmikoTimeoutException", "Unable to connect")))
                   /\ UNCHANGED sessions
                \/ /\ sessions' = Append(sessions, Session(j, "open", "open", "user"))
                   /\ nrm_jobs' = [nrm_jobs EXCEPT ![j] =
                        [@ EXCEPT !.pc = "send_config_set", !.conn = Len(sessions) + 1]]
    /\ UNCHANGED <<backend, switch>>
    /\ NrmFrame

\* The CLI executes the commands one after another.
RECURSIVE execute_all(_, _, _)
execute_all(cli, config, cmds) ==
    IF cmds = <<>>
    THEN [mode |-> cli.mode, port |-> cli.port, config |-> config, logout |-> FALSE]
    ELSE LET done == execute(cli, config, Head(cmds))
         IN execute_all(done, done.config, Tail(cmds))

\* conn.enable() and conn.send_config_set(commands): netmiko enters the
\* configuration mode, sends the commands and leaves the mode. When a
\* command fails or times out, the commands before it are applied and the
\* connection is closed on leaving the with block.
send_config_set(j) ==
    /\ nrm_jobs[j].pc = "send_config_set"
    /\ LET job == nrm_jobs[j]
           c == job.conn
           all == <<command("enable"), command("configure")>> \o job.commands \o <<cmdexit>>
       IN \E n \in 0..Len(all) :
            LET cmds == SubSeq(all, 1, n)
                done == execute_all(sessions[c], switch, cmds)
                used == [sessions[c] EXCEPT
                            !.mode = done.mode,
                            !.port = done.port,
                            !.out = <<>>,
                            !.read = @ \cup {j},
                            !.sent = IF n = 0 THEN @ ELSE @ \cup {j}]
            IN /\ switch' = done.config
               /\ IF n = Len(all)
                  THEN /\ sessions' = [sessions EXCEPT ![c] = used]
                       /\ nrm_jobs' = [nrm_jobs EXCEPT ![j] = [@ EXCEPT !.pc = "send_command"]]
                  ELSE /\ sessions' = [sessions EXCEPT ![c] =
                            [used EXCEPT !.channel = "closed", !.client = "closed",
                                         !.closed = Append(@, [job |-> j, closes |-> "conn"])]]
                       /\ Raise(j, netmiko_error(Exception("ReadTimeout", "Pattern not detected")))
    /\ UNCHANGED backend
    /\ NrmFrame

\* conn.send_command(commit), the end of the with block, and the return.
send_command(j) ==
    /\ nrm_jobs[j].pc = "send_command"
    /\ LET job == nrm_jobs[j]
           c == job.conn
           closed(session) ==
               [session EXCEPT !.channel = "closed", !.client = "closed",
                               !.closed = Append(@, [job |-> j, closes |-> "conn"])]
       IN \/ /\ sessions' = [sessions EXCEPT ![c] =
                    closed(channel_send(@, j, command("write")))]
             /\ nrm_jobs' = [nrm_jobs EXCEPT ![j] = Returns(@)]
          \/ /\ sessions' = [sessions EXCEPT ![c] = closed(@)]
             /\ Raise(j, netmiko_error(Exception("ReadTimeout", "Pattern not detected")))
    /\ UNCHANGED <<backend, switch>>
    /\ NrmFrame

\* The switch ends a session.
PeerCloses(i) ==
    /\ \E j \in DOMAIN nrm_jobs : Running(j)
    /\ Usable(sessions[i])
    /\ sessions' = [sessions EXCEPT ![i] = [@ EXCEPT !.eof = TRUE]]
    /\ UNCHANGED <<backend, switch, nrm_jobs>>
    /\ NrmFrame

\* What the switch printed does not arrive.
PromptLost(i) ==
    /\ \E j \in DOMAIN nrm_jobs : Running(j)
    /\ Usable(sessions[i])
    /\ sessions[i].out # <<>>
    /\ sessions' = [sessions EXCEPT ![i] = [@ EXCEPT !.out = <<>>]]
    /\ UNCHANGED <<backend, switch, nrm_jobs>>
    /\ NrmFrame

\* No connection, request, query or scheduler job; a switch with no VLAN.
NoCalls ==
    /\ reservation_state = RSMInitial
    /\ provisioning_state = PSMInitial
    /\ lifecycle_state = LSMInitial
    /\ data_plane_state = DPSMInitial
    /\ hold_timer = FALSE
    /\ notifications = <<>>
    /\ last = [machine |-> "none", event |-> "none", source |-> "none", result |-> "none"]
    /\ calls = <<>>
    /\ reached = {}
    /\ NoRequests
    /\ NoQueries
    /\ scheduler = [up |-> TRUE, run |-> 0, jobs |-> {}, sent |-> {}]
    /\ sessions = <<>>
    /\ switch = [vlans |-> {}, trunk |-> {}, allowed |-> {}]
    /\ stp = [config |-> "none"]

\* Any of the backends with any settings, and one job that calls it.
BackendsInit ==
    /\ NoCalls
    /\ \E name \in BackendNames : \E settings \in BackendSettings :
        /\ name # "aristaEOS4" => settings.cli_needs_enable
        /\ name = "yaml_topology_test" =>
                settings.ssh_private_key_path = "" /\ settings.ssh_password = ""
        /\ backend = [name |-> name, settings |-> settings, sshclient |-> 0, channel |-> 0]
    /\ nrm_jobs = <<IdleJob>>

AristaNext ==
    \/ \E j \in DOMAIN nrm_jobs : activate(j)
    \/ \E j \in DOMAIN nrm_jobs : deactivate(j)
    \/ \E j \in DOMAIN nrm_jobs : get_ssh_shell(j)
    \/ \E j \in DOMAIN nrm_jobs : while_prompt(j)
    \/ \E j \in DOMAIN nrm_jobs : recv(j)
    \/ \E j \in DOMAIN nrm_jobs : send(j)
    \/ \E j \in DOMAIN nrm_jobs : send_commands_return(j)
    \/ \E i \in DOMAIN sessions : PeerCloses(i)
    \/ \E i \in DOMAIN sessions : PromptLost(i)

BackendsNext ==
    \/ \E j \in DOMAIN nrm_jobs : \E primitive \in Primitives :
       \E dst_vlan \in Vlans : \E circuit_id \in CircuitIds :
            Call(j, primitive, TestVlan, dst_vlan, circuit_id)
    \/ \E j \in DOMAIN nrm_jobs : no_op(j)
    \/ \E j \in DOMAIN nrm_jobs : check_ssh_pass_keys(j)
    \/ \E j \in DOMAIN nrm_jobs : send_config_set(j)
    \/ \E j \in DOMAIN nrm_jobs : send_command(j)
    \/ AristaNext

Backends == BackendsInit /\ [][BackendsNext]_vars

\* Two jobs, for two connections on the same ports with a VLAN each, call
\* activate or deactivate of the one aristaEOS4 instance at the same time.
ParallelInit ==
    /\ NoCalls
    /\ backend = [name |-> "aristaEOS4",
                  settings |-> [ssh_private_key_path |-> "", ssh_password |-> "secret",
                                cli_prompt |-> "ceos2", cli_needs_enable |-> FALSE],
                  sshclient |-> 0, channel |-> 0]
    /\ nrm_jobs = <<Frame("activate", "c1", TestVlan, TestVlan, ""),
                    Frame("deactivate", "c2", TestVlan + 1, TestVlan + 1, "")>>

ParallelNext ==
    \/ \E j \in DOMAIN nrm_jobs : activate(j)
    \/ \E j \in DOMAIN nrm_jobs : deactivate(j)
    \/ \E j \in DOMAIN nrm_jobs : get_ssh_shell(j)
    \/ \E j \in DOMAIN nrm_jobs : while_prompt(j)
    \/ \E j \in DOMAIN nrm_jobs : recv(j)
    \/ \E j \in DOMAIN nrm_jobs : send(j)
    \/ \E j \in DOMAIN nrm_jobs : send_commands_return(j)

Parallel == ParallelInit /\ [][ParallelNext]_vars

\* One job calls activate or deactivate of aristaEOS4. The thread of the
\* job keeps running: a step of the call that can be taken is taken.
BoundedInit ==
    /\ NoCalls
    /\ \E cli_needs_enable \in BOOLEAN :
        backend = [name |-> "aristaEOS4",
                   settings |-> [ssh_private_key_path |-> "", ssh_password |-> "secret",
                                 cli_prompt |-> "ceos2", cli_needs_enable |-> cli_needs_enable],
                   sshclient |-> 0, channel |-> 0]
    /\ \E primitive \in {"activate", "deactivate"} : \E circuit_id \in CircuitIds :
        nrm_jobs = <<Frame(primitive, "c1", TestVlan, TestVlan, circuit_id)>>

Step(j) ==
    \/ activate(j)
    \/ deactivate(j)
    \/ get_ssh_shell(j)
    \/ while_prompt(j)
    \/ recv(j)
    \/ send(j)
    \/ send_commands_return(j)

Bounded == BoundedInit /\ [][AristaNext]_vars /\ WF_vars(Step(1))

\* Two connections that share the port Ethernet 2 and have a VLAN each.
\* Job k calls activate and deactivate for connection k, with the ports
\* and the VLAN of its reservation; the calls come one after another.
ThirdPort == "Ethernet 3"
Connections ==
    <<[connection_id |-> "c1", src_port_id |-> SrcPort, dst_port_id |-> DstPort,
       vlan |-> TestVlan],
      [connection_id |-> "c2", src_port_id |-> DstPort, dst_port_id |-> ThirdPort,
       vlan |-> TestVlan + 1]>>

\* The entries of the trunk allowed-VLAN sets that belong to a connection.
Membership(connection) ==
    {<<connection.src_port_id, connection.vlan>>,
     <<connection.dst_port_id, connection.vlan>>}

CallFor(j, primitive) ==
    /\ \A k \in DOMAIN nrm_jobs : ~Running(k)
    /\ nrm_jobs' = [nrm_jobs EXCEPT ![j] =
            [Frame(primitive, Connections[j].connection_id,
                   Connections[j].vlan, Connections[j].vlan, OldCircuit)
                EXCEPT !.src_port_id = Connections[j].src_port_id,
                       !.dst_port_id = Connections[j].dst_port_id]]
    /\ sessions' = <<>>
    /\ backend' = [backend EXCEPT !.sshclient = 0, !.channel = 0]
    /\ UNCHANGED switch
    /\ NrmFrame

\* One of the backends that configure a switch, with a password.
SharedInit ==
    /\ NoCalls
    /\ \E name \in BackendNames \ {"yaml_topology_test"} :
        backend = [name |-> name,
                   settings |-> [ssh_private_key_path |-> "", ssh_password |-> "secret",
                                 cli_prompt |-> "ceos2",
                                 cli_needs_enable |-> (name # "aristaEOS4")],
                   sshclient |-> 0, channel |-> 0]
    /\ nrm_jobs = <<IdleJob, IdleJob>>

SharedNext ==
    \/ \E j \in DOMAIN nrm_jobs : \E primitive \in {"activate", "deactivate"} :
            CallFor(j, primitive)
    \/ \E j \in DOMAIN nrm_jobs : check_ssh_pass_keys(j)
    \/ \E j \in DOMAIN nrm_jobs : send_config_set(j)
    \/ \E j \in DOMAIN nrm_jobs : send_command(j)
    \/ ParallelNext

Shared == SharedInit /\ [][SharedNext]_vars

----------------------------------------------------------------------------
(* The worker pool.  A fixed number of workers dequeue jobs; a job takes   *)
(* the mutex of its connection for its store write, releases it before it  *)
(* calls the backend or the requester, and takes it again to apply the     *)
(* state transition.  An inbound call holds the mutex of its connection    *)
(* for its store write and takes no worker.  scheduler.jobs maps a job to  *)
(* its connection, its kind and the point it has reached; lock maps a      *)
(* connection to the holder of its mutex.                                  *)

\* Number of worker threads of the pool.
PoolSize == 2

\* The jobs: two jobs and a timer of c1, a job of c2, and an inbound
\* message for each connection.
PoolJobs ==
    <<[connection_id |-> "c1", kind |-> "job"],
      [connection_id |-> "c1", kind |-> "timer"],
      [connection_id |-> "c2", kind |-> "job"],
      [connection_id |-> "c2", kind |-> "timer"],
      [connection_id |-> "c1", kind |-> "message"],
      [connection_id |-> "c2", kind |-> "message"]>>

\* The points at which a job holds the mutex, and at which it has a worker.
Holding == {"write", "apply"}
OnWorker == {"dequeued", "write", "call", "apply"}

Workers == {i \in DOMAIN scheduler.jobs :
                scheduler.jobs[i].kind # "message" /\ scheduler.jobs[i].pc \in OnWorker}

PoolFrame ==
    UNCHANGED <<connection_vars, reached, requests, commit_jobs, query_vars,
                backend, sessions, switch, nrm_jobs, stp>>

\* One connection at rest, as far as the machines go.
Idle ==
    /\ reservation_state = RSMInitial
    /\ provisioning_state = PSMInitial
    /\ lifecycle_state = LSMInitial
    /\ data_plane_state = DPSMInitial
    /\ hold_timer = FALSE
    /\ notifications = <<>>
    /\ last = [machine |-> "none", event |-> "none", source |-> "none", result |-> "none"]
    /\ calls = <<>>
    /\ reached = {}

\* No backend is called.
NoBackend ==
    /\ backend = [name |-> "none"]
    /\ sessions = <<>>
    /\ switch = [vlans |-> {}, trunk |-> {}, allowed |-> {}]
    /\ nrm_jobs = <<>>
    /\ stp = [config |-> "none"]

PoolInit ==
    /\ Idle
    /\ NoQueries
    /\ NoBackend
    /\ requests = <<>>
    /\ commit_jobs = [scheduled |-> 0, pending |-> 0]
    /\ lock = [c \in ConnectionIds |-> Free]
    /\ scheduler = [up |-> TRUE, run |-> 0,
                    jobs |-> [i \in DOMAIN PoolJobs |->
                                [connection_id |-> PoolJobs[i].connection_id,
                                 kind |-> PoolJobs[i].kind, pc |-> "pending"]]]

\* Variant: the mutex is taken without waiting for its holder.
mutex_free_always(connection_id) == TRUE
\* The per-connection mutex can be taken.
mutex_free(connection_id) == lock[connection_id] = Free

\* A free worker dequeues a pending job.
dequeue(i) ==
    /\ scheduler.jobs[i].kind # "message"
    /\ scheduler.jobs[i].pc = "pending"
    /\ Cardinality(Workers) < PoolSize
    /\ scheduler' = [scheduler EXCEPT !.jobs[i].pc = "dequeued"]
    /\ UNCHANGED lock
    /\ PoolFrame

\* A job, or an inbound call, takes the mutex of its connection for its
\* store write; it waits while another holds it.
acquire(i) ==
    /\ scheduler.jobs[i].pc =
            IF scheduler.jobs[i].kind = "message" THEN "pending" ELSE "dequeued"
    /\ mutex_free(scheduler.jobs[i].connection_id)
    /\ lock' = [lock EXCEPT ![scheduler.jobs[i].connection_id] = i]
    /\ scheduler' = [scheduler EXCEPT !.jobs[i].pc = "write"]
    /\ PoolFrame

\* The store write is done and the mutex is released: an inbound call
\* returns, a job goes on to call the backend or the requester.
release(i) ==
    /\ scheduler.jobs[i].pc = "write"
    /\ lock' = [lock EXCEPT ![scheduler.jobs[i].connection_id] = Free]
    /\ scheduler' = [scheduler EXCEPT !.jobs[i].pc =
                        IF scheduler.jobs[i].kind = "message" THEN "done" ELSE "call"]
    /\ PoolFrame

\* The call has returned: the job takes the mutex again to apply the state
\* transition.
reacquire(i) ==
    /\ scheduler.jobs[i].pc = "call"
    /\ mutex_free(scheduler.jobs[i].connection_id)
    /\ lock' = [lock EXCEPT ![scheduler.jobs[i].connection_id] = i]
    /\ scheduler' = [scheduler EXCEPT !.jobs[i].pc = "apply"]
    /\ PoolFrame

\* The state transition is written; the job is marked done and its worker
\* is free again.
mark_done(i) ==
    /\ scheduler.jobs[i].pc = "apply"
    /\ lock' = [lock EXCEPT ![scheduler.jobs[i].connection_id] = Free]
    /\ scheduler' = [scheduler EXCEPT !.jobs[i].pc = "done"]
    /\ PoolFrame

PoolNext ==
    \/ \E i \in DOMAIN scheduler.jobs : dequeue(i)
    \/ \E i \in DOMAIN scheduler.jobs : acquire(i)
    \/ \E i \in DOMAIN scheduler.jobs : release(i)
    \/ \E i \in DOMAIN scheduler.jobs : reacquire(i)
    \/ \E i \in DOMAIN scheduler.jobs : mark_done(i)

Pool == PoolInit /\ [][PoolNext]_vars

----------------------------------------------------------------------------
(* The delivery of a confirmation to the requester.  The callback is a job *)
(* of the connection; an attempt that fails on the transport is retried    *)
(* after a delay that doubles from one second, and when the attempts are   *)
(* used up a MessageDeliveryTimeout notification is appended.              *)
(* scheduler.now is the clock in seconds, scheduler.delivery the callback  *)
(* job.  The hold timer of a held reservation runs beside the delivery.    *)

\* The defaults of the retry: attempts, first delay in seconds, factor.
MaxAttempts == 10
FirstBackoff == 1
BackoffFactor == 2

DeliveryFrame ==
    UNCHANGED <<reached, processor_vars, query_vars, backend, sessions, switch,
                nrm_jobs, stp>>

\* A reservation was confirmed and is held, or its commit was confirmed;
\* the confirmation is about to be sent.
DeliveryInit ==
    /\ \E message \in {"ReserveConfirmed", "ReserveCommitConfirmed"} :
        /\ reservation_state = IF message = "ReserveConfirmed" THEN "Held" ELSE "Start"
        /\ hold_timer = (message = "ReserveConfirmed")
        /\ scheduler = [up |-> TRUE, run |-> 0, now |-> 0,
                        delivery |-> [message |-> message, status |-> "pending",
                                      attempts |-> 0, backoff |-> 0, next_at |-> 0]]
    /\ provisioning_state = PSMInitial
    /\ lifecycle_state = LSMInitial
    /\ data_plane_state = DPSMInitial
    /\ notifications = <<>>
    /\ last = [machine |-> "none", event |-> "none", source |-> "none", result |-> "none"]
    /\ calls = <<>>
    /\ reached = {}
    /\ NoRequests
    /\ NoQueries
    /\ NoBackend

\* Variant: one attempt more is made before the delivery is given up.
exhausted_after(attempts) == attempts > MaxAttempts
\* The attempts are used up.
exhausted(attempts) == attempts >= MaxAttempts

\* The delay before the next attempt.
next_backoff(backoff) == IF backoff = 0 THEN FirstBackoff ELSE backoff * BackoffFactor

\* The callback is due and is sent: the requester takes it, or the
\* transport fails and the callback is retried later or given up.
deliver(reachable) ==
    LET job == scheduler.delivery
        attempts == job.attempts + 1
        backoff == next_backoff(job.backoff)
    IN /\ job.status \in {"pending", "waiting"}
       /\ scheduler.now >= job.next_at
       /\ IF reachable
          THEN /\ scheduler' = [scheduler EXCEPT
                        !.delivery = [job EXCEPT !.status = "delivered", !.attempts = attempts]]
               /\ UNCHANGED notifications
          ELSE IF exhausted(attempts)
          THEN /\ scheduler' = [scheduler EXCEPT
                        !.delivery = [job EXCEPT !.status = "failed", !.attempts = attempts]]
               /\ notifications' = Append(notifications, "MessageDeliveryTimeout")
          ELSE /\ scheduler' = [scheduler EXCEPT
                        !.delivery = [job EXCEPT !.status = "waiting",
                                                 !.attempts = attempts,
                                                 !.backoff = backoff,
                                                 !.next_at = scheduler.now + backoff]]
               /\ UNCHANGED notifications
       /\ UNCHANGED <<reservation_state, provisioning_state, lifecycle_state,
                      data_plane_state, hold_timer, last, calls>>
       /\ DeliveryFrame

\* A second passes while the callback waits for its next attempt.
Tick ==
    /\ scheduler.delivery.status = "waiting"
    /\ scheduler.now < scheduler.delivery.next_at
    /\ scheduler' = [scheduler EXCEPT !.now = @ + 1]
    /\ UNCHANGED connection_vars
    /\ DeliveryFrame

\* The hold timer of the reservation fires.
HoldTimerExpires ==
    /\ ReserveTimeoutJob
    /\ UNCHANGED scheduler
    /\ DeliveryFrame

DeliveryNext ==
    \/ \E reachable \in BOOLEAN : deliver(reachable)
    \/ Tick
    \/ HoldTimerExpires

Delivery == DeliveryInit /\ [][DeliveryNext]_vars

----------------------------------------------------------------------------
(* Crash and recovery.  A reservation is being checked: its ReserveJob is  *)
(* in the job store.  The job calls backend.reserve, applies               *)
(* reserve_confirmed or reserve_failed together with the hold timer, and   *)
(* is marked done.  The provider can crash at any point; what a job held   *)
(* in memory is lost, the job store and the connection are kept.  On       *)
(* startup the pending jobs are run again and the timers that are overdue  *)
(* fire at once.  scheduler.jobs is the job store, scheduler.running the   *)
(* job at work, scheduler.now the clock, scheduler.lost the points at      *)
(* which a crash interrupted the job.                                      *)

\* Crashes the model lets happen, and the hold time in seconds.
MaxCrashes == 2
HoldTime == 2

NotRunning == [pc |-> "idle", outcome |-> "none"]
ReserveJobRecord == [job |-> "ReserveJob"]
TimerRecord(at) == [job |-> "ReserveTimeoutJob", at |-> at]
Timers == {j \in scheduler.jobs : j.job = "ReserveTimeoutJob"}
Overdue == {j \in Timers : j.at <= scheduler.now}

RecoveryFrame ==
    UNCHANGED <<reached, processor_vars, query_vars, sessions, switch, nrm_jobs, stp>>

RecoveryInit ==
    /\ reservation_state = "Checking"
    /\ provisioning_state = PSMInitial
    /\ lifecycle_state = LSMInitial
    /\ data_plane_state = DPSMInitial
    /\ hold_timer = FALSE
    /\ notifications = <<>>
    /\ last = [machine |-> "none", event |-> "none", source |-> "none", result |-> "none"]
    /\ calls = <<>>
    /\ reached = {}
    /\ NoRequests
    /\ NoQueries
    /\ scheduler = [up |-> TRUE, run |-> 0, now |-> 0, jobs |-> {ReserveJobRecord},
                    running |-> NotRunning, lost |-> {}]
    /\ backend = [name |-> "none", first |-> "none", calls |-> 0]
    /\ sessions = <<>>
    /\ switch = [vlans |-> {}, trunk |-> {}, allowed |-> {}]
    /\ nrm_jobs = <<>>
    /\ stp = [config |-> "none"]

\* Variant: the backend refuses a primitive it has already carried out.
answers_once(first) == IF first = "none" THEN {"ok", "error"} ELSE {"error"}
\* A backend that is idempotent per (connection_id, primitive): a repeated
\* call is answered as the first was.
answers(first) == IF first = "none" THEN {"ok", "error"} ELSE {first}

\* The ReserveJob calls backend.reserve.
reserve_call ==
    /\ scheduler.up
    /\ ReserveJobRecord \in scheduler.jobs
    /\ scheduler.running.pc = "idle"
    /\ \E outcome \in answers(backend.first) :
        /\ backend' = [backend EXCEPT
                            !.first = IF @ = "none" THEN outcome ELSE @,
                            !.calls = 1]
        /\ scheduler' = [scheduler EXCEPT !.running = [pc |-> "called", outcome |-> outcome]]
    /\ UNCHANGED connection_vars
    /\ RecoveryFrame

\* The job applies the transition and, for a confirmed reservation, sets
\* the hold timer, in one write.
reserve_apply ==
    /\ scheduler.up
    /\ scheduler.running.pc = "called"
    /\ IF scheduler.running.outcome = "ok"
       THEN /\ RSMCall("reserve_confirmed", reserve_confirmed)
            /\ hold_timer' = (hold_timer \/ last'.result = "Accepted")
            /\ UNCHANGED notifications
       ELSE rsm_reserve_failed
    /\ scheduler' = [scheduler EXCEPT
            !.running.pc = "applied",
            !.jobs = IF scheduler.running.outcome = "ok" /\ last'.result = "Accepted"
                     THEN @ \cup {TimerRecord(scheduler.now + HoldTime)}
                     ELSE @]
    /\ UNCHANGED backend
    /\ RecoveryFrame

\* The job is marked done.
reserve_done ==
    /\ scheduler.up
    /\ scheduler.running.pc = "applied"
    /\ scheduler' = [scheduler EXCEPT !.running = NotRunning,
                                      !.jobs = @ \ {ReserveJobRecord}]
    /\ UNCHANGED <<connection_vars, backend>>
    /\ RecoveryFrame

\* The hold timer is due and fires.
timer_fires ==
    /\ scheduler.up
    /\ Overdue # {}
    /\ ReserveTimeoutJob
    /\ scheduler' = [scheduler EXCEPT !.jobs = @ \ Overdue]
    /\ UNCHANGED backend
    /\ RecoveryFrame

\* A second passes: while the provider runs, not beyond the time of a
\* timer that has not fired.
Second ==
    /\ Timers # {}
    /\ \A j \in Timers : IF scheduler.up THEN scheduler.now < j.at
                                         ELSE scheduler.now <= j.at
    /\ scheduler' = [scheduler EXCEPT !.now = @ + 1]
    /\ UNCHANGED <<connection_vars, backend>>
    /\ RecoveryFrame

\* The provider crashes.
Crash ==
    /\ scheduler.up
    /\ scheduler.run < MaxCrashes
    /\ scheduler' = [scheduler EXCEPT !.up = FALSE, !.running = NotRunning,
                                      !.lost = @ \cup {scheduler.running.pc}]
    /\ UNCHANGED <<connection_vars, backend>>
    /\ RecoveryFrame

\* Variant: on startup the timers wait for the scheduler like other jobs.
recover_timers_later == {}
\* The timers that fire in the course of the startup.
recover_timers == Overdue

\* The provider starts again: recover() finds the pending jobs in the
\* job store, and the overdue timers fire at once.
Startup ==
    /\ ~scheduler.up
    /\ IF recover_timers # {}
       THEN /\ hold_timer
            /\ ReserveTimeoutJob
       ELSE UNCHANGED connection_vars
    /\ scheduler' = [scheduler EXCEPT !.up = TRUE, !.run = @ + 1,
                                      !.jobs = @ \ recover_timers]
    /\ UNCHANGED backend
    /\ RecoveryFrame

RecoveryStep ==
    \/ reserve_call
    \/ reserve_apply
    \/ reserve_done
    \/ timer_fires
    \/ Second
    \/ Startup

RecoveryNext ==
    \/ RecoveryStep
    \/ Crash

\* The provider is started again after a crash, its workers run the jobs
\* that can run, and time passes.
Recovery ==
    /\ RecoveryInit
    /\ [][RecoveryNext]_vars
    /\ WF_vars(reserve_call)
    /\ WF_vars(reserve_apply)
    /\ WF_vars(reserve_done)
    /\ WF_vars(timer_fires)
    /\ WF_vars(Second)
    /\ WF_vars(Startup)

----------------------------------------------------------------------------
(* Termination and the jobs of the connection.  The connection has a       *)
(* pending hold timer, ProvisionJob, ActivateJob or ReleaseJob when a      *)
(* Terminate request arrives, before or after its end time.  A job is      *)
(* pending, or it is calling the backend with the mutex released; its      *)
(* callback applies the transition.  An accepted                           *)
(* terminate_request cancels the timers and jobs of the connection, and    *)
(* schedules the DeactivateJob, when the data plane is up, and the         *)
(* TerminateJob.  scheduler.jobs holds the jobs, scheduler.dropped the     *)
(* kinds of job whose late callback was dropped.                           *)

Job(kind) == [job |-> kind, pc |-> "pending", cancelled |-> FALSE]

TerminationFrame ==
    UNCHANGED <<reached, processor_vars, query_vars, backend, sessions, switch,
                nrm_jobs, stp>>

TerminationInit ==
    /\ \E situation \in {"held", "provisioning", "activating", "releasing"} :
        /\ reservation_state = IF situation = "held" THEN "Held" ELSE RSMInitial
        /\ hold_timer = (situation = "held")
        /\ provisioning_state =
                CASE situation = "provisioning" -> "Provisioning"
                  [] situation = "activating" -> "Provisioned"
                  [] situation = "releasing" -> "Releasing"
                  [] OTHER -> PSMInitial
        /\ data_plane_state = IF situation = "releasing" THEN "Activated" ELSE DPSMInitial
        /\ scheduler = [up |-> TRUE, run |-> 0, dropped |-> {},
                        jobs |-> CASE situation = "held" -> {Job("ReserveTimeoutJob")}
                                   [] situation = "provisioning" -> {Job("ProvisionJob")}
                                   [] situation = "activating" -> {Job("ActivateJob")}
                                   [] OTHER -> {Job("ReleaseJob")}]
    /\ lifecycle_state \in {LSMInitial, "PassedEndTime"}
    /\ notifications = <<>>
    /\ last = [machine |-> "none", event |-> "none", source |-> "none", result |-> "none"]
    /\ calls = <<>>
    /\ reached = {}
    /\ NoRequests
    /\ NoQueries
    /\ NoBackend

\* Variant: termination cancels no job.
survives_all(kind) == TRUE
\* The jobs that termination leaves alone.
survives(kind) == kind \in {"DeactivateJob", "TerminateJob"}

\* The jobs after the cancellation: a pending job is taken out of the
\* queue, a job that is calling the backend is marked cancelled.
cancel(jobs) ==
    {j \in jobs : survives(j.job)}
        \cup {[j EXCEPT !.cancelled = TRUE] : j \in {k \in jobs : ~survives(k.job) /\ k.pc = "calling"}}

\* A worker takes a pending job, which calls the backend; the data plane
\* jobs first record that they have started.  The TerminateJob runs after
\* the DeactivateJob.
start_job(j) ==
    /\ j \in scheduler.jobs
    /\ j.pc = "pending"
    /\ j.job # "ReserveTimeoutJob"
    /\ j.job = "TerminateJob" => \A k \in scheduler.jobs : k.job # "DeactivateJob"
    /\ scheduler' = [scheduler EXCEPT !.jobs = (@ \ {j}) \cup {[j EXCEPT !.pc = "calling"]}]
    /\ \/ /\ j.job = "ActivateJob"
          /\ dpsm_activate_request
       \/ /\ j.job = "DeactivateJob"
          /\ dpsm_deactivate_request
       \/ /\ j.job \notin {"ActivateJob", "DeactivateJob"}
          /\ UNCHANGED connection_vars
    /\ TerminationFrame

\* The backend has answered: the job applies its transition.  A confirmed
\* provision is followed by the activation of the data plane.
finish_job(j) ==
    /\ j \in scheduler.jobs
    /\ j.pc = "calling"
    /\ ~j.cancelled
    /\ scheduler' = [scheduler EXCEPT !.jobs =
            (@ \ {j}) \cup (IF j.job = "ProvisionJob" THEN {Job("ActivateJob")} ELSE {})]
    /\ \/ /\ j.job = "ProvisionJob"
          /\ psm_provision_confirmed
       \/ /\ j.job = "ReleaseJob"
          /\ psm_release_confirmed
       \/ /\ j.job = "ActivateJob"
          /\ \/ dpsm_activate_confirmed
             \/ dpsm_activate_failed
       \/ /\ j.job = "DeactivateJob"
          /\ dpsm_deactivate_confirmed
       \/ /\ j.job = "TerminateJob"
          /\ lsm_terminate_confirmed
    /\ TerminationFrame

\* The backend answers a job that was cancelled: the callback is dropped.
drop_callback(j) ==
    /\ j \in scheduler.jobs
    /\ j.pc = "calling"
    /\ j.cancelled
    /\ scheduler' = [scheduler EXCEPT !.jobs = @ \ {j}, !.dropped = @ \cup {j.job}]
    /\ UNCHANGED connection_vars
    /\ TerminationFrame

\* The hold timer fires.
hold_timer_fires ==
    /\ Job("ReserveTimeoutJob") \in scheduler.jobs
    /\ ReserveTimeoutJob
    /\ scheduler' = [scheduler EXCEPT !.jobs = @ \ {Job("ReserveTimeoutJob")}]
    /\ TerminationFrame

\* A Terminate request: terminate_request is called on the LSM; when it is
\* accepted the jobs and timers are cancelled and the DeactivateJob and the
\* TerminateJob are scheduled.
terminate ==
    /\ LSMCall("terminate_request", terminate_request)
    /\ UNCHANGED notifications
    /\ IF last'.result = "Accepted"
       THEN /\ hold_timer' = FALSE
            /\ scheduler' = [scheduler EXCEPT !.jobs =
                    cancel(@)
                        \cup (IF data_plane_state = "Activated"
                              THEN {Job("DeactivateJob")} ELSE {})
                        \cup {Job("TerminateJob")}]
       ELSE UNCHANGED <<hold_timer, scheduler>>
    /\ TerminationFrame

TerminationNext ==
    \/ \E j \in scheduler.jobs : start_job(j)
    \/ \E j \in scheduler.jobs : finish_job(j)
    \/ \E j \in scheduler.jobs : drop_callback(j)
    \/ hold_timer_fires
    \/ terminate

Termination == TerminationInit /\ [][TerminationNext]_vars

----------------------------------------------------------------------------
(* The transitions the specification lists, as (state, event, target).     *)

ListedRSM ==
    { <<"Start", "reserve_request", "Checking">>,
      <<"Checking", "reserve_confirmed", "Held">>,
      <<"Checking", "reserve_failed", "Failed">>,
      <<"Failed", "reserve_abort_request", "Aborting">>,
      <<"Held", "reserve_abort_request", "Aborting">>,
      <<"Aborting", "reserve_abort_confirmed", "Start">>,
      <<"Held", "reserve_timeout_notification", "Timeout">>,
      <<"Held", "reserve_commit_request", "Committing">>,
      <<"Timeout", "reserve_commit_request", "Committing">>,
      <<"Committing", "reserve_commit_confirmed", "Start">>,
      <<"Committing", "reserve_commit_failed", "Start">> }

ListedPSM ==
    { <<"Released", "provision_request", "Provisioning">>,
      <<"Provisioning", "provision_confirmed", "Provisioned">>,
      <<"Provisioned", "release_request", "Releasing">>,
      <<"Releasing", "release_confirmed", "Released">> }

ListedLSM ==
    { <<"Created", "forced_end_notification", "Failed">>,
      <<"Created", "endtime_event", "PassedEndTime">>,
      <<"Created", "terminate_request", "Terminating">>,
      <<"Failed", "terminate_request", "Terminating">>,
      <<"PassedEndTime", "terminate_request", "Terminating">>,
      <<"Terminating", "terminate_confirmed", "Terminated">> }

\* The last call is listed: its (source state, event) pair is in `listed`.
LastListed(listed) == \E t \in listed : t[1] = last.source /\ t[2] = last.event

\* The states `listed` lets a machine move between.
Graph(listed) == {<<t[1], t[3]>> : t \in listed}

\* C1: the Reservation State Machine starts in Start; a reservation event is
\* accepted exactly when its (state, event) pair is one of the eleven listed
\* ones, and then the machine is in the listed target; every other pair is
\* rejected.
C1_RSMAcceptsExactlyListed ==
    /\ last.machine = "none" => reservation_state = "Start"
    /\ last.machine = "RSM" =>
        /\ last.result = (IF LastListed(ListedRSM) THEN "Accepted" ELSE "Rejected")
        /\ \A t \in ListedRSM :
            (t[1] = last.source /\ t[2] = last.event) => reservation_state = t[3]

C1_Witness ==
    /\ last = [machine |-> "RSM", event |-> "reserve_commit_request",
               source |-> "Timeout", result |-> "Accepted"]
    /\ reservation_state = "Committing"

\* The current state of the machine an event belongs to.
MachineState(machine) ==
    CASE machine = "RSM" -> reservation_state
      [] machine = "PSM" -> provisioning_state
      [] machine = "LSM" -> lifecycle_state

\* C2: a call on the RSM, PSM or LSM of an event that is not listed for the
\* machine's current state is rejected, and a rejected call has no side
\* effects: the machine's own state, the states of the connection's other
\* machines and the notification log are what they were before the call.
C2_RejectedWithoutSideEffects ==
    [][last'.machine \in {"RSM", "PSM", "LSM"} =>
        /\ (~ \E t \in ListedRSM \cup ListedPSM \cup ListedLSM :
                t[1] = MachineState(last'.machine) /\ t[2] = last'.event)
            => last'.result = "Rejected"
        /\ last'.result = "Rejected" => UNCHANGED <<machines, notifications>>]_vars

C2_Witness ==
    /\ last.machine = "PSM" /\ last.result = "Rejected"
    /\ reservation_state = "Held"
    /\ provisioning_state = "Provisioned"
    /\ lifecycle_state = "PassedEndTime"

\* C3: the states each machine goes through form a path in its transition
\* graph that starts at its initial state (RSM Start, PSM Released, LSM
\* Created): a machine's state changes only along a listed transition, and
\* every accepted call takes one.
C3_RecordedStatesFormPath ==
    /\ reservation_state = "Start" /\ provisioning_state = "Released"
    /\ lifecycle_state = "Created"
    /\ [][/\ (reservation_state' # reservation_state \/
              (last'.machine = "RSM" /\ last'.result = "Accepted"))
             => <<reservation_state, reservation_state'>> \in Graph(ListedRSM)
          /\ (provisioning_state' # provisioning_state \/
              (last'.machine = "PSM" /\ last'.result = "Accepted"))
             => <<provisioning_state, provisioning_state'>> \in Graph(ListedPSM)
          /\ (lifecycle_state' # lifecycle_state \/
              (last'.machine = "LSM" /\ last'.result = "Accepted"))
             => <<lifecycle_state, lifecycle_state'>> \in Graph(ListedLSM)]_vars

C3_Witness ==
    /\ reservation_state = "Aborting"
    /\ provisioning_state = "Releasing"
    /\ lifecycle_state = "Terminated"
    /\ last.result = "Rejected"

\* C4 as stated: once LSM = Terminated, every later event on any of the
\* connection's machines is rejected.
C4_NothingAcceptedAfterTerminated ==
    [][lifecycle_state = "Terminated" => last'.result = "Rejected"]_vars

\* C4 as amended: once LSM = Terminated it stays Terminated and every later
\* lifecycle event is rejected; an event on the RSM or PSM is accepted or
\* rejected by that machine's own state alone, as before.
C4_TerminatedIsFinalForLSM ==
    [][lifecycle_state = "Terminated" =>
        /\ lifecycle_state' = "Terminated"
        /\ last'.machine = "LSM" => last'.result = "Rejected"
        /\ last'.machine = "RSM" =>
            last'.result = (IF \E t \in ListedRSM :
                                  t[1] = reservation_state /\ t[2] = last'.event
                            THEN "Accepted" ELSE "Rejected")
        /\ last'.machine = "PSM" =>
            last'.result = (IF \E t \in ListedPSM :
                                  t[1] = provisioning_state /\ t[2] = last'.event
                            THEN "Accepted" ELSE "Rejected")]_vars

C4_Witness ==
    /\ lifecycle_state = "Terminated"
    /\ last = [machine |-> "LSM", event |-> "terminate_request",
               source |-> "Terminated", result |-> "Rejected"]

\* C5: on a fresh connection the calls reserve_request, reserve_confirmed,
\* reserve_commit_request, reserve_commit_confirmed, provision_request,
\* provision_confirmed, release_request, release_confirmed,
\* terminate_request, terminate_confirmed are each accepted, and after the
\* last one RSM = Start, PSM = Released, LSM = Terminated and
\* DPSM = Deactivated.
C5_HappyPathRoundTrip ==
    /\ (calls # <<>> /\ IsPrefix(calls, HappyPath)) => last.result = "Accepted"
    /\ calls = HappyPath =>
        /\ reservation_state = "Start"
        /\ provisioning_state = "Released"
        /\ lifecycle_state = "Terminated"
        /\ data_plane_state = "Deactivated"

C5_Witness == calls = HappyPath /\ last.event = "terminate_confirmed"

\* Position of a provisioning state along Released, Provisioning,
\* Provisioned, Releasing.
PSMStep(state) ==
    CASE state = "Released" -> 0
      [] state = "Provisioning" -> 1
      [] state = "Provisioned" -> 2
      [] state = "Releasing" -> 3

\* C6 as stated: the PSM starts in Released and every accepted provisioning
\* event advances it one step along Released, Provisioning, Provisioned,
\* Releasing, never back to a state it has occupied before.
C6_PSMNoBackEdges ==
    /\ provisioning_state = "Released"
    /\ [][(last'.machine = "PSM" /\ last'.result = "Accepted")
            => PSMStep(provisioning_state') = PSMStep(provisioning_state) + 1]_vars

\* C6 as amended: the PSM starts in Released and its four events each
\* advance it one step around the cycle Released, Provisioning,
\* Provisioned, Releasing, Released: provision_request is accepted only in
\* Released, provision_confirmed only in Provisioning, release_request only
\* in Provisioned, and release_confirmed only in Releasing, from where it
\* returns the machine to Released.
C6_PSMCycle ==
    /\ provisioning_state = "Released"
    /\ [][last'.machine = "PSM" =>
            /\ last'.result = (IF last'.event =
                                    CASE provisioning_state = "Released" -> "provision_request"
                                      [] provisioning_state = "Provisioning" -> "provision_confirmed"
                                      [] provisioning_state = "Provisioned" -> "release_request"
                                      [] provisioning_state = "Releasing" -> "release_confirmed"
                               THEN "Accepted" ELSE "Rejected")
            /\ last'.result = "Accepted" =>
                PSMStep(provisioning_state') = (PSMStep(provisioning_state) + 1) % 4
            /\ last'.result = "Rejected" => provisioning_state' = provisioning_state]_vars

C6_Witness ==
    /\ last = [machine |-> "PSM", event |-> "release_confirmed",
               source |-> "Releasing", result |-> "Accepted"]
    /\ provisioning_state = "Released"

\* C7: the LSM starts in Created; endtime_event is accepted only in Created
\* and leads to PassedEndTime; terminate_request is accepted exactly in
\* Created, Failed and PassedEndTime and leads to Terminating;
\* terminate_confirmed is accepted only in Terminating and leads to
\* Terminated; an accepted forced_end_notification leads to Failed; the
\* lifecycle state changes in no other way.
C7_LSMTransitions ==
    /\ last.machine = "none" => lifecycle_state = "Created"
    /\ (last.machine = "LSM" /\ last.event = "endtime_event") =>
        /\ last.result = "Accepted" <=> last.source = "Created"
        /\ last.result = "Accepted" => lifecycle_state = "PassedEndTime"
    /\ (last.machine = "LSM" /\ last.event = "terminate_request") =>
        /\ last.result = "Accepted" <=> last.source \in {"Created", "Failed", "PassedEndTime"}
        /\ last.result = "Accepted" => lifecycle_state = "Terminating"
    /\ (last.machine = "LSM" /\ last.event = "terminate_confirmed") =>
        /\ last.result = "Accepted" <=> last.source = "Terminating"
        /\ last.result = "Accepted" => lifecycle_state = "Terminated"
    /\ (last.machine = "LSM" /\ last.event = "forced_end_notification") =>
        (last.result = "Accepted" => lifecycle_state = "Failed")
    /\ (last.machine = "LSM" /\ last.result = "Rejected") => lifecycle_state = last.source

C7_Witness ==
    /\ last = [machine |-> "LSM", event |-> "terminate_request",
               source |-> "PassedEndTime", result |-> "Accepted"]
    /\ lifecycle_state = "Terminating"

\* C8 as stated: a terminate request is accepted in every lifecycle state
\* other than Terminated and leaves LSM in Terminating; it is rejected only
\* when LSM = Terminated.
C8_TerminateAcceptedUnlessTerminated ==
    (last.machine = "LSM" /\ last.event = "terminate_request") =>
        /\ last.result = (IF last.source # "Terminated" THEN "Accepted" ELSE "Rejected")
        /\ last.source # "Terminated" => lifecycle_state = "Terminating"

\* C8 as amended: a terminate request is accepted in the lifecycle states
\* Created, Failed and PassedEndTime and leaves LSM in Terminating; it is
\* rejected when LSM is Terminating or Terminated, and LSM stays as it was.
C8_TerminateAcceptedBeforeTerminating ==
    (last.machine = "LSM" /\ last.event = "terminate_request") =>
        IF last.source \in {"Created", "Failed", "PassedEndTime"}
        THEN last.result = "Accepted" /\ lifecycle_state = "Terminating"
        ELSE last.result = "Rejected" /\ lifecycle_state = last.source

C8_Witness ==
    /\ last = [machine |-> "LSM", event |-> "terminate_request",
               source |-> "Terminating", result |-> "Rejected"]
    /\ lifecycle_state = "Terminating"

\* C9: the reserve hold timer takes effect only when RSM = Held: fired in
\* Held it moves RSM to Timeout (and a ReserveTimeout notification is
\* appended); fired in any other state it changes no machine state and
\* appends no notification.
C9_HoldTimerOnlyInHeld ==
    [][last'.event = "reserve_timeout_notification" =>
        IF reservation_state = "Held"
        THEN /\ reservation_state' = "Timeout"
             /\ notifications' = Append(notifications, "ReserveTimeout")
             /\ UNCHANGED <<provisioning_state, lifecycle_state, data_plane_state>>
        ELSE UNCHANGED <<machines, notifications>>]_vars

C9_Witness ==
    /\ last = [machine |-> "RSM", event |-> "reserve_timeout_notification",
               source |-> "Committing", result |-> "Rejected"]
    /\ reservation_state = "Committing"

\* C10: a hold that has timed out can still be committed: after
\* reserve_request, reserve_confirmed and reserve_timeout_notification RSM is
\* Timeout; a reserve_commit_request is then accepted and moves RSM to
\* Committing, and reserve_commit_confirmed returns it to Start; a
\* reserve_abort_request in Timeout is rejected and RSM stays Timeout.
C10_TimedOutHoldCommits ==
    /\ calls = SubSeq(TimeoutCommit, 1, 3) =>
        last.result = "Accepted" /\ reservation_state = "Timeout"
    /\ calls = SubSeq(TimeoutCommit, 1, 4) =>
        last.result = "Accepted" /\ reservation_state = "Committing"
    /\ calls = TimeoutCommit =>
        last.result = "Accepted" /\ reservation_state = "Start"
    /\ (last.machine = "RSM" /\ last.source = "Timeout") =>
        /\ last.event = "reserve_commit_request" =>
            last.result = "Accepted" /\ reservation_state = "Committing"
        /\ last.event = "reserve_abort_request" =>
            last.result = "Rejected" /\ reservation_state = "Timeout"

C10_Witness == calls = TimeoutCommit /\ reservation_state = "Start"

\* C13: a forced end raised on a connection is accepted only when
\* LSM = Created; accepted (for example on a connection that is Provisioned
\* and Activated) it makes LSM Failed and leaves RSM, PSM and DPSM
\* unchanged, so DPSM stays Activated; rejected it changes nothing.
C13_ForcedEndOnlyChangesLSM ==
    [][last'.event = "forced_end_notification" =>
        /\ last'.result = (IF lifecycle_state = "Created" THEN "Accepted" ELSE "Rejected")
        /\ lifecycle_state' = (IF lifecycle_state = "Created" THEN "Failed"
                               ELSE lifecycle_state)
        /\ UNCHANGED <<reservation_state, provisioning_state, data_plane_state>>]_vars

C13_Witness ==
    /\ last = [machine |-> "LSM", event |-> "forced_end_notification",
               source |-> "Created", result |-> "Accepted"]
    /\ lifecycle_state = "Failed"
    /\ provisioning_state = "Provisioned"
    /\ data_plane_state = "Activated"

\* C12: a Provision request is accepted only when PSM = Released,
\* LSM = Created and the end time has not passed, and then PSM becomes
\* Provisioning; once LSM is Failed, PassedEndTime, Terminating or
\* Terminated every Provision request is rejected, and a rejected request
\* leaves PSM unchanged.
C12_ProvisionNeedsCreated ==
    [][last'.event = "Provision" =>
        /\ last'.result = (IF /\ provisioning_state = "Released"
                              /\ lifecycle_state = "Created"
                              /\ ~last'.after_end_time
                           THEN "Accepted" ELSE "Rejected")
        /\ last'.result = "Accepted" => provisioning_state' = "Provisioning"
        /\ last'.result = "Rejected" => provisioning_state' = provisioning_state
        /\ lifecycle_state \in {"Failed", "PassedEndTime", "Terminating", "Terminated"}
            => (last'.result = "Rejected" /\ provisioning_state' = provisioning_state)
        /\ UNCHANGED <<reservation_state, lifecycle_state>>]_vars

C12_Witness ==
    /\ last.event = "Provision" /\ last.result = "Rejected" /\ ~last.after_end_time
    /\ provisioning_state = "Released"
    /\ lifecycle_state = "PassedEndTime"

\* The connection has a PSM.
PSMExists == provisioning_state # NoPSM

\* C14 as stated: a connection always has an RSM and an LSM, and it has a
\* PSM if and only if its RSM has reached Held and a commit has started; no
\* Provision is accepted before the first reservation is committed.
C14_PSMIffCommitStarted ==
    /\ reservation_state \in RSMStates /\ lifecycle_state \in LSMStates
    /\ PSMExists <=> {"reserve_confirmed", "reserve_commit_request"} \subseteq reached
    /\ (last.event = "Provision" /\ last.result = "Accepted")
        => "reserve_commit_confirmed" \in reached

\* C14 as amended: a connection always has an RSM and an LSM, and it has a
\* PSM if and only if a commit of its reservation has been confirmed (so its
\* RSM has reached Held and a commit has started, but a commit that is
\* still in progress or has failed creates no PSM); no Provision is
\* accepted before the first reservation is committed.
C14_PSMIffCommitConfirmed ==
    /\ reservation_state \in RSMStates /\ lifecycle_state \in LSMStates
    /\ PSMExists <=> "reserve_commit_confirmed" \in reached
    /\ PSMExists => provisioning_state \in PSMStates
    /\ "reserve_commit_confirmed" \in reached =>
        {"reserve_confirmed", "reserve_commit_request"} \subseteq reached
    /\ (last.event = "Provision" /\ last.result = "Accepted")
        => "reserve_commit_confirmed" \in reached

C14_Witness ==
    /\ ~PSMExists
    /\ reservation_state = "Start"
    /\ {"reserve_confirmed", "reserve_commit_request"} \subseteq reached
    /\ last.event = "Provision" /\ last.result = "Rejected"
    /\ lifecycle_state = "Created" /\ ~last.after_end_time

\* The requests that were answered `result`.
Answered(result) == {i \in DOMAIN requests : requests[i].result = result}

\* C11: of several ReserveCommit requests processed concurrently for a
\* connection whose RSM is Held or Timeout, exactly one is accepted: it moves
\* the RSM to Committing and schedules the one ReserveCommitJob; every other
\* request is answered InvalidTransition, in every interleaving.
C11_OneCommitWins ==
    /\ Cardinality(Answered("Accepted")) <= 1
    /\ commit_jobs.scheduled = Cardinality(Answered("Accepted"))
    /\ \A i \in DOMAIN requests :
        /\ requests[i].result = "Accepted" => requests[i].seen \in {"Held", "Timeout"}
        /\ (requests[i].result = "Accepted" /\ requests[i].pc = "answered")
            => reservation_state = "Committing"
        /\ requests[i].pc \in {"answered", "done"}
            => requests[i].result \in {"Accepted", "InvalidTransition"}
    /\ (requests # <<>> /\ \A i \in DOMAIN requests : requests[i].pc \in {"answered", "done"})
        => /\ Cardinality(Answered("Accepted")) = 1
           /\ Cardinality(Answered("InvalidTransition")) = Len(requests) - 1

C11_Witness ==
    /\ Len(requests) = MaxRequests
    /\ \A i \in DOMAIN requests : requests[i].pc = "done"
    /\ requests[2].result = "Accepted" /\ requests[2].seen = "Timeout"
    /\ requests[1].result = "InvalidTransition" /\ requests[1].seen = "Committing"
    /\ requests[3].result = "InvalidTransition" /\ requests[3].seen = "Start"

\* A QuerySummary job has sent its message and the requester has not yet
\* taken it: the tables are the ones the job read.
SummarySent ==
    /\ response # NoResponse
    /\ response.operation = "QuerySummaryConfirmed"
    /\ response.message # Raised

\* The reservation of `connection_id` is in the message sent.
Returned(connection_id) ==
    \E q \in response.message.reservation : q.connection_id = connection_id

C16_EmptyFilterReturnsOwnOnly ==
    (/\ SummarySent
     /\ response.request.connection_id = {}
     /\ response.request.global_reservation_id = {})
        => \A q \in response.message.reservation :
                q.requester_nsa = response.request.header.requester_nsa

\* C17: the last_modified of a QuerySummary response is the maximum
\* last_modified over all stored reservations, those that the filter, the
\* state exclusion or if_modified_since kept out of the list included.
C17_LastModifiedOverAllReservations ==
    SummarySent =>
        /\ \A r \in store.reservations : r.last_modified <= response.message.last_modified
        /\ \E r \in store.reservations : r.last_modified = response.message.last_modified

C17_Witness ==
    /\ SummarySent
    /\ response.message.last_modified = MaxTime
    /\ Returned("c1")
    /\ \A q \in response.message.reservation :
        \E r \in store.reservations :
            r.connection_id = q.connection_id /\ r.last_modified < MaxTime
    /\ \E r \in store.reservations :
        r.reservation_state = "ReserveChecking" /\ r.last_modified = MaxTime

\* The notification ids and the result ids appended for a connection.
NotificationIds(connection_id) ==
    {n.notification_id : n \in {m \in store.notifications : m.connection_id = connection_id}}
ResultIds(connection_id) ==
    {n.result_id : n \in {m \in store.results : m.connection_id = connection_id}}

\* The highest of `ids`, 0 when there is none.
Highest(ids) == IF ids = {} THEN 0 ELSE CHOOSE m \in ids : \A x \in ids : x <= m

C18_QueriesReadOnly ==
    [][/\ response = NoResponse =>
            /\ ENABLED QuerySummaryJob
            /\ ENABLED QueryRecursiveJob
            /\ ENABLED QueryNotificationJob
       /\ (response = NoResponse /\ response' # NoResponse) =>
            UNCHANGED <<machines, hold_timer, notifications, store, processor_vars>>]_vars

C18_Witness ==
    /\ response # NoResponse
    /\ response.operation = "QueryNotificationConfirmed"
    /\ response.request.connection_id = "c1"
    /\ response.message.error_event # {}
    /\ lock = Holder("c1")

\* The notifications a QueryNotification job has sent, whatever their type.
NotificationsSent ==
    response.message.reserve_timeout \cup response.message.error_event
        \cup response.message.message_delivery_timeout
        \cup response.message.data_plane_state_change

\* C19: QueryNotification for connection C with bounds start and end returns
\* exactly the notifications of C whose id is in the inclusive range
\* [start, end], where a start of 0 stands for the oldest notification and
\* an end of 0 for the newest; no notification of another connection is
\* returned.
C19_NotificationRange ==
    (response # NoResponse /\ response.operation = "QueryNotificationConfirmed") =>
        LET C == response.request.connection_id
            start == IF response.request.start_notification_id = 0
                     THEN 1 ELSE response.request.start_notification_id
            end == IF response.request.end_notification_id = 0
                   THEN Highest(NotificationIds(C)) ELSE response.request.end_notification_id
        IN  /\ NotificationsSent =
                {[connection_id |-> C, notification_id |-> id] :
                    id \in NotificationIds(C) \cap start..end}
            /\ \A n \in NotificationsSent : n.connection_id = C

C19_Witness ==
    /\ response # NoResponse
    /\ response.operation = "QueryNotificationConfirmed"
    /\ response.request.connection_id = "c1"
    /\ response.request.start_notification_id = 1
    /\ response.request.end_notification_id = 1
    /\ NotificationsSent = {[connection_id |-> "c1", notification_id |-> 1]}
    /\ NotificationIds("c2") = {1}

\* C21: for the same request and the same tables, QueryRecursive computes
\* the confirmation QuerySummary computes (same reservations, same
\* last_modified); only the requester callback it invokes differs.
C21_RecursiveSameAsSummary ==
    [][(response = NoResponse /\ response' # NoResponse) =>
        /\ response'.operation \in {"QuerySummaryConfirmed", "QueryRecursiveConfirmed"}
        /\ response'.message = create_query_confirmed_request(store, response'.request)
        /\ store' = store]_vars

C21_Witness ==
    /\ response # NoResponse
    /\ response.operation = "QueryRecursiveConfirmed"
    /\ response.request.if_modified_since = 1
    /\ response.message # Raised
    /\ \E q \in response.message.reservation : q.connection_id = "c1"
    /\ \E r \in store.reservations : r.connection_id = "c2" /\ r.last_modified = 1
    /\ response.message.last_modified = MaxTime

\* C22: query jobs are triggered to run immediately and are never
\* recovered: after a restart the scheduler holds no query job, so a query
\* job that had not run when the provider stopped is dropped and no
\* confirmation for it is sent after the restart.
C22_QueryJobsNotRecovered ==
    /\ \A j \in scheduler.jobs :
        /\ j.trigger = [run_date |-> "None"]
        /\ j.added = scheduler.run
    /\ \A c \in scheduler.sent : c.added = c.sent

C22_Witness ==
    /\ scheduler.up
    /\ scheduler.run = 1
    /\ scheduler.jobs = {}
    /\ scheduler.sent = {[job |-> "QuerySummaryJob", added |-> 0, sent |-> 0],
                         [job |-> "QueryNotificationJob", added |-> 1, sent |-> 1]}

Over(j) == nrm_jobs[j].pc = "idle" /\ nrm_jobs[j].result # NoResult
Succeeded(j) == Over(j) /\ "returns" \in DOMAIN nrm_jobs[j].result
Failed(j) == Over(j) /\ "raises" \in DOMAIN nrm_jobs[j].result

\* C23: in every backend a successful activate returns a non-empty
\* circuit_id string and every other primitive returns None on success,
\* also a deactivate that follows an activate with the same arguments.
C23_ActivateReturnsCircuitId ==
    \A j \in DOMAIN nrm_jobs : Succeeded(j) =>
        IF nrm_jobs[j].primitive = "activate"
        THEN /\ nrm_jobs[j].result.returns = "str"
             /\ nrm_jobs[j].result.value # ""
        ELSE nrm_jobs[j].result = ReturnNone

C23_Witness ==
    /\ backend.name = "dellOS10"
    /\ Succeeded(1)
    /\ nrm_jobs[1].primitive = "deactivate"
    /\ nrm_jobs[1].dst_vlan = TestVlan
    /\ switch = [vlans |-> {TestVlan}, trunk |-> {SrcPort, DstPort}, allowed |-> {}]

\* C24: in every backend activate with src_vlan different from dst_vlan
\* fails with NsiException GenericRmError "VLANs must match", returns no
\* circuit_id, opens no session and sends no command to the switch.
C24_VlanTranslationRejected ==
    /\ \A j \in DOMAIN nrm_jobs :
        (/\ nrm_jobs[j].pc # "idle"
         /\ nrm_jobs[j].primitive = "activate"
         /\ nrm_jobs[j].src_vlan # nrm_jobs[j].dst_vlan)
            => nrm_jobs[j].pc = "activate" /\ sessions = <<>>
    /\ \A j \in DOMAIN nrm_jobs :
        (/\ Over(j)
         /\ nrm_jobs[j].primitive = "activate"
         /\ nrm_jobs[j].src_vlan # nrm_jobs[j].dst_vlan)
            => /\ nrm_jobs[j].result = NsiException("GenericRmError", <<"VLANs must match">>)
               /\ sessions = <<>>

C24_Witness ==
    /\ backend.name = "clab_aristaCEOS4_netmiko"
    /\ Failed(1)
    /\ nrm_jobs[1].primitive = "activate"
    /\ nrm_jobs[1].src_vlan = TestVlan
    /\ nrm_jobs[1].dst_vlan = TestVlan + 1
    /\ nrm_jobs[1].result.message = <<"VLANs must match">>
    /\ switch.allowed = {<<SrcPort, TestVlan>>, <<DstPort, TestVlan>>}

\* C25: every failure of an activate or deactivate call reaches the caller
\* as NsiException with GenericRmError; no other exception leaves the call.
C25_FailuresAreGenericRmError ==
    \A j \in DOMAIN nrm_jobs :
        (Failed(j) /\ nrm_jobs[j].primitive \in {"activate", "deactivate"}) =>
            /\ nrm_jobs[j].result.raises = "NsiException"
            /\ nrm_jobs[j].result.error = "GenericRmError"

\* C28: reserve, reserve_timeout, reserve_commit, reserve_abort, provision,
\* release and terminate open no session, send no command, leave the switch
\* as it is and return None; the switch changes only in a call of activate
\* or deactivate.
C28_OnlyActivateDeactivateChangeSwitch ==
    [][/\ \A j \in DOMAIN nrm_jobs :
            nrm_jobs[j].pc \in Primitives \ {"activate", "deactivate"} =>
                /\ nrm_jobs'[j].pc = "idle"
                /\ nrm_jobs'[j].result = ReturnNone
                /\ sessions' = sessions
                /\ switch' = switch
       /\ (switch' # switch \/ (sessions' # sessions /\ sessions' # <<>>)) =>
            \E j \in DOMAIN nrm_jobs :
                Running(j) /\ nrm_jobs[j].primitive \in {"activate", "deactivate"}]_vars

C28_Witness ==
    /\ backend.name = "aristaEOS4"
    /\ Succeeded(1)
    /\ nrm_jobs[1].primitive = "terminate"
    /\ sessions = <<>>
    /\ switch = [vlans |-> {TestVlan}, trunk |-> {SrcPort, DstPort},
                 allowed |-> {<<SrcPort, TestVlan>>, <<DstPort, TestVlan>>}]

\* C30: activate returns the circuit_id it was given: for a non-empty
\* circuit_id the returned value equals the argument, in every backend.
C30_ActivateKeepsCircuitId ==
    \A j \in DOMAIN nrm_jobs :
        (/\ Succeeded(j)
         /\ nrm_jobs[j].primitive = "activate"
         /\ nrm_jobs[j].circuit_id # "")
            => nrm_jobs[j].result = Return(nrm_jobs[j].circuit_id)

\* C26: the SSH session is not shared between jobs: when two jobs call
\* activate or deactivate at the same time, no call sends commands on,
\* reads from or closes the channel that the other call opened.
C26_SessionNotSharedAcrossJobs ==
    \A i \in DOMAIN sessions :
        /\ sessions[i].sent \subseteq {sessions[i].opened_by}
        /\ sessions[i].read \subseteq {sessions[i].opened_by}
        /\ \A n \in DOMAIN sessions[i].closed : sessions[i].closed[n].job = sessions[i].opened_by

\* C27: every call is bounded: an activate or deactivate call eventually
\* returns or raises, also when the switch does not print the awaited
\* prompt or the channel is closed and reads return nothing.
C27_CallsEnd == <>Over(1)

\* C39: QuerySummary succeeds on a store that holds no reservation: the
\* confirmation is built, with an empty reservation list.
C39_SummaryOfEmptyStore ==
    (/\ response # NoResponse
     /\ response.operation = "QuerySummaryConfirmed"
     /\ store.reservations = {})
        => /\ response.message # Raised
           /\ response.message.reservation = {}

\* C40: no machine gets stuck short of its resting state: from the state
\* the RSM is in Start can be reached by accepted events, from the state
\* the PSM is in Released, from the state the LSM is in Terminated; and
\* Terminated is the only state of the three machines that no transition
\* leaves.
C40_RestingStateReachable ==
    /\ "Start" \in Reachable(RSMTransitions, {reservation_state})
    /\ "Released" \in Reachable(PSMTransitions, {provisioning_state})
    /\ "Terminated" \in Reachable(LSMTransitions, {lifecycle_state})
    /\ {state \in RSMStates : Leaving(RSMTransitions, state) = {}} = {}
    /\ {state \in PSMStates : Leaving(PSMTransitions, state) = {}} = {}
    /\ {state \in LSMStates : Leaving(LSMTransitions, state) = {}} = {"Terminated"}

C40_Witness ==
    /\ reservation_state = "Timeout"
    /\ provisioning_state = "Releasing"
    /\ lifecycle_state = "Failed"

\* The commands a call has sent, in order, and the prompt it read last
\* before the n-th entry of its log.
Sent(log) == SelectSeq(log, LAMBDA e : "sent" \in DOMAIN e)
PromptBefore(log, n) ==
    IF n > 1 /\ "prompt" \in DOMAIN log[n - 1] THEN log[n - 1].prompt ELSE <<>>

\* C35: _send_commands of aristaEOS4 keeps the prompt protocol: enable is
\* sent only with cli_needs_enable and after "<prompt>>" was read,
\* configure only after "<prompt>#"; the commands follow in list order,
\* the first after "<prompt>(config)#" and each other after the ")#" of the
\* one before; then exit, and the commit only after "<prompt>#" was read
\* again.
C35_PromptProtocol ==
    \A j \in DOMAIN nrm_jobs :
        LET job == nrm_jobs[j]
            log == job.log
            cli_prompt == backend.settings.cli_prompt
            all == (IF backend.settings.cli_needs_enable THEN <<command("enable")>> ELSE <<>>)
                   \o <<command("configure")>> \o job.commands
                   \o <<command("exit"), command("write")>>
            first == IF backend.settings.cli_needs_enable THEN 3 ELSE 2
            final == first + Len(job.commands) - 1
            awaited(k) ==
                IF backend.settings.cli_needs_enable /\ k = 1 THEN <<cli_prompt, ">">>
                ELSE IF k = first - 1 THEN <<cli_prompt, "#">>
                ELSE IF k = first THEN <<cli_prompt, "(", "config", ")", "#">>
                ELSE IF k <= final + 1 THEN <<")", "#">>
                ELSE <<cli_prompt, "#">>
        IN (backend.name = "aristaEOS4" /\ "log" \in DOMAIN job) =>
            /\ Len(Sent(log)) <= Len(all)
            /\ \A k \in 1..Len(Sent(log)) : Sent(log)[k].sent = all[k]
            /\ \A n \in DOMAIN log :
                "sent" \in DOMAIN log[n] =>
                    PromptBefore(log, n) = awaited(Len(Sent(SubSeq(log, 1, n))))

C35_Witness ==
    /\ backend.name = "aristaEOS4"
    /\ backend.settings.cli_needs_enable
    /\ Succeeded(1)
    /\ nrm_jobs[1].primitive = "activate"
    /\ Len(Sent(nrm_jobs[1].log)) = 14
    /\ nrm_jobs[1].log[1] = [prompt |-> <<"ceos2", ">">>]
    /\ nrm_jobs[1].log[2] = [sent |-> command("enable")]

\* How often the channel or the client of a session was closed.
Closes(session, what) ==
    Len(SelectSeq(session.closed, LAMBDA e : e.closes = what))

\* C37: every session that _send_commands of aristaEOS4 opened is closed
\* when the call has returned or raised: the client and the channel are
\* closed, each exactly once, and no session stays open after a failed
\* activate or deactivate.
C37_SessionsClosedOnce ==
    \A j \in DOMAIN nrm_jobs :
        (backend.name = "aristaEOS4" /\ Over(j)) =>
            \A i \in DOMAIN sessions :
                (sessions[i].opened_by = j /\ sessions[i].client # "new") =>
                    /\ sessions[i].client = "closed"
                    /\ sessions[i].channel = "closed"
                    /\ Closes(sessions[i], "channel") = 1
                    /\ Closes(sessions[i], "sshclient") = 1

\* The call of job j has just returned without an exception.
CallReturned(j) ==
    /\ nrm_jobs[j].result = NoResult
    /\ nrm_jobs'[j].pc = "idle"
    /\ "returns" \in DOMAIN nrm_jobs'[j].result

\* C36: activate puts the VLAN into the trunk allowed-VLAN set of the source
\* and the destination port, with the VLAN defined and both ports in trunk
\* mode; deactivate with the same ports and VLAN takes the VLAN out of the
\* allowed set of exactly those two ports, so that the membership is what
\* it was without the connection; no call takes away a VLAN definition or
\* the trunk mode of a port, and no call changes the allowed set of a port
\* and VLAN other than its own.
C36_ActivateDeactivateRestoresTrunks ==
    [][\A j \in DOMAIN nrm_jobs :
        LET own == Membership(Connections[j])
        IN /\ (CallReturned(j) /\ nrm_jobs[j].primitive = "activate") =>
                /\ own \subseteq switch'.allowed
                /\ Connections[j].vlan \in switch'.vlans
                /\ {Connections[j].src_port_id, Connections[j].dst_port_id}
                        \subseteq switch'.trunk
           /\ (CallReturned(j) /\ nrm_jobs[j].primitive = "deactivate") =>
                own \cap switch'.allowed = {}
           /\ Running(j) => (switch'.allowed \ own = switch.allowed \ own)
           /\ switch.vlans \subseteq switch'.vlans
           /\ switch.trunk \subseteq switch'.trunk]_vars

\* Connection c1 was activated and deactivated again while c2 stayed
\* activated: only the membership of c2 is left, and the VLAN of c1 and
\* the trunk mode of its ports are still there.
C36_Witness ==
    /\ backend.name = "clab_aristaCEOS4_netmiko"
    /\ Succeeded(1) /\ nrm_jobs[1].primitive = "deactivate"
    /\ Succeeded(2) /\ nrm_jobs[2].primitive = "activate"
    /\ switch = [vlans |-> {TestVlan, TestVlan + 1},
                 trunk |-> {SrcPort, DstPort, ThirdPort},
                 allowed |-> Membership(Connections[2])]

Holders(connection_id) ==
    {i \in DOMAIN scheduler.jobs :
        /\ scheduler.jobs[i].connection_id = connection_id
        /\ scheduler.jobs[i].pc \in Holding}

\* C31: of the jobs, timers and inbound calls of one connection at most
\* one holds the mutex and writes state at any time, and it is the holder
\* the mutex names; the jobs that run at once never exceed the pool size.
C31_SerialisedPerConnection ==
    /\ \A c \in ConnectionIds :
        /\ Cardinality(Holders(c)) <= 1
        /\ Holders(c) = IF lock[c] = Free THEN {} ELSE {lock[c]}
    /\ Cardinality(Workers) <= PoolSize

\* Jobs of the two connections write at the same time, on all workers of
\* the pool, while a timer of c1 waits for the mutex on no worker.
C31_Witness ==
    /\ Holders("c1") # {}
    /\ Holders("c2") # {}
    /\ Cardinality(Workers) = PoolSize
    /\ Workers \subseteq Holders("c1") \cup Holders("c2")
    /\ \E i \in DOMAIN scheduler.jobs :
        /\ scheduler.jobs[i].connection_id = "c1"
        /\ scheduler.jobs[i].pc = "pending"

\* How many notifications of a kind the connection has.
Count(kind) == Len(SelectSeq(notifications, LAMBDA n : n = kind))

WithoutCrash(first) ==
    IF first = "ok"
    THEN Run(reserve_timeout_notification, Run(reserve_confirmed, "Checking").state).state
    ELSE Run(reserve_failed, "Checking").state

\* C33: whatever crashes interrupt the ReserveJob, with a backend that
\* answers a repeated call as it answered the first, the connection ends
\* for good in the machine states it ends in without a crash, with no job
\* left in the job store; and whenever the provider is up, no timer whose
\* time has passed is still waiting.
C33_CrashRestartSameTerminalState ==
    /\ <>[](/\ scheduler.up
            /\ scheduler.jobs = {}
            /\ backend.first # "none"
            /\ reservation_state = WithoutCrash(backend.first)
            /\ provisioning_state = PSMInitial
            /\ lifecycle_state = LSMInitial
            /\ data_plane_state = DPSMInitial)
    /\ [](scheduler.up => \A j \in Timers : j.at >= scheduler.now)

\* The provider crashed after the backend had answered and again after
\* the reservation was written as held; the hold timer ran out while the
\* provider was down and fired on startup.
C33_Witness ==
    /\ scheduler.up
    /\ scheduler.jobs = {}
    /\ scheduler.lost = {"called", "applied"}
    /\ scheduler.now = HoldTime + 1
    /\ reservation_state = "Timeout"
    /\ notifications = <<"ReserveTimeout">>

\* C34: once the LSM is Terminating (and after), the connection has no
\* timer and no pending job other than the DeactivateJob and the
\* TerminateJob: what was pending is gone, what was calling the backend is
\* cancelled; and the late answer to a cancelled job changes no machine
\* state of the connection.
C34_TerminatingCancelsJobs ==
    /\ [](lifecycle_state \in {"Terminating", "Terminated"} =>
            /\ ~hold_timer
            /\ \A j \in scheduler.jobs :
                \/ j.job \in {"DeactivateJob", "TerminateJob"} /\ ~j.cancelled
                \/ j.cancelled /\ j.pc = "calling")
    /\ [][(\E j \in scheduler.jobs : j.cancelled /\ j \notin scheduler'.jobs) =>
            <<reservation_state, provisioning_state, lifecycle_state, data_plane_state>>'
                = <<reservation_state, provisioning_state, lifecycle_state, data_plane_state>>]_vars

\* The ProvisionJob was calling the backend when the connection was
\* terminated; its answer came late and the connection is Terminated with
\* the PSM still Provisioning.
C34_Witness ==
    /\ "ProvisionJob" \in scheduler.dropped
    /\ scheduler.jobs = {}
    /\ lifecycle_state = "Terminated"
    /\ provisioning_state = "Provisioning"
    /\ data_plane_state = DPSMInitial

====
